---- MODULE Spec2Model ----
(***************************************************************************)
(* Connection-resilience layer of the XRPL wallet client.                  *)
(*                                                                         *)
(*   XrplProvider   src/src/contexts/XrplContext.tsx  (ensureConnection,   *)
(*                  cleanup, switchToNextNode, waitForConnection)          *)
(*   WalletProvider src/src/contexts/WalletContext.tsx (cache accessors)   *)
(*                                                                         *)
(* The event loop is modelled by interleaving: every action is the code    *)
(* that runs between two suspension points (await / timer / socket event). *)
(* Time is a discrete clock; the idle window is IdleTicks ticks long and a *)
(* due timer fires before the clock advances further.                      *)
(***************************************************************************)
EXTENDS Integers, Sequences, FiniteSets, TLC

\* ---------------------------------------------------------------- bounds
NCallers == 2          \* client objects created by the callers
MaxCreated == 1        \* client objects createClient may have alive at once
MaxTimers == 2         \* pending setTimeout handles of the provider
IdleTicks == 2         \* clock ticks in one IDLE_TIMEOUT window
MaxMade == 2           \* connection attempts per call, concurrent specification
ExtraMade == 2         \* attempts explored beyond maxAttempts, retry specification
MaxNow == 4            \* clock steps of the cache specification
MaxStores == 2         \* cache entries written in one behaviour
MaxWClients == 3       \* client objects of the wallet provider alive at once
MaxActivityCalls == 2  \* checkAccountStatus invocations of the Activity view in flight or scheduled
MaxRetryCount == 3     \* largest retryCount of the Activity view explored
MaxAppClients == 5     \* client objects App creates in one behaviour
MaxViewerCalls == 2    \* fetchWalletData / handleReconnect invocations of the viewer in flight
MaxViewerNow == 16     \* clock steps of the viewer specification
MaxMounts == 2         \* times the TrustlineManager is mounted
MaxViewerRuns == 2     \* runs of the load effect and presses of the refresh button

\* ------------------------------------------------------ program constants
MAINNET_NODES == <<"wss://xrpl.ws", "wss://s1.ripple.com", "wss://s2.ripple.com", "wss://xrplcluster.com">>
RECONNECT_DELAY == 2000
MAX_BACKOFF_DELAY == 30000
IDLE_TIMEOUT == 120000
CACHE_DURATION == 30000

NumNodes == Len(MAINNET_NODES)
maxAttempts == NumNodes * 2

Callers == 1..NCallers
Created == (NCallers + 1)..(NCallers + MaxCreated)
Clients == Callers \cup Created
Procs == {1, 2}
NoClient == 0
NoTimer == <<0, 0>>
TimerKeys == Clients \X (0..IdleTicks)

\* error messages a connection attempt can fail with
Errors == {"noPermission", "connection", "Connection timeout"}
MaxAttemptsError == "Failed to connect after maximum attempts"

\* node the callers create their own clients for (App.tsx MAINNET_URL)
MAINNET_URL == "wss://xrplcluster.com"

Min(a, b) == IF a < b THEN a ELSE b
Max(a, b) == IF a > b THEN a ELSE b

RECURSIVE Pow2(_)
Pow2(n) == IF n <= 0 THEN 1 ELSE 2 * Pow2(n - 1)

\* 0-based position of a node URL in MAINNET_NODES
NodeIndexOf(url) == (CHOOSE i \in 1..NumNodes : MAINNET_NODES[i] = url) - 1

VARIABLES
  clients,        \* client object -> [sock, wired, node]
  connectionRef,  \* connectionRef.current of XrplProvider
  timers,         \* pending idle timers: <<client, ticks left>> -> how many
  isConnecting,   \* React state isConnecting
  currentNode,    \* React state currentNode
  calls,          \* one record per ensureConnection invocation slot
  fired,          \* the client whose idle timer has just fired, if any
  quiet,          \* caller's client -> ticks since ensureConnection was last called or resolved for it
  budget,         \* which slots and clients are in use, attempts explored per call (fixed by Init)
  cachedBalances,     \* WalletProvider state: address -> <<>> or <<[timestamp, data]>>
  cachedAssets,       \* the same for asset lists
  cachedTransactions, \* the same for transaction lists
  localStorage,       \* the extension's storage: key -> <<>> or <<text>>
  dateNow,            \* Date.now() in ms
  cacheRead,          \* what the last cache read returned
  lastStore,          \* history: kind and address -> <<>> or <<[at, value]>> last written
  walletProvider,     \* WalletProvider: wallet, stored wallet, clients, connection state
  activity,           \* Activity view: its React state, calls in flight, retry timers
  swap,               \* TokenSwap form: its React state, the swap in progress, the client
  app,                \* App: its React state and refs, its client objects, its retry timer
  viewer,             \* WalletViewer: its React state and refs, its fetches in flight, its timers
  manager             \* TrustlineManager: its React state, its calls in flight, the ledger's trustline

pvars == <<clients, connectionRef, timers, isConnecting, currentNode, calls, fired, quiet, budget>>

cvars == <<cachedBalances, cachedAssets, cachedTransactions, localStorage, dateNow, cacheRead, lastStore>>

\* the state of the components around the two providers
components == <<walletProvider, activity, swap, app, viewer, manager>>

\* what a step of one component leaves alone
exceptWallet == <<pvars, cvars, activity, swap, app, viewer, manager>>

exceptActivity == <<pvars, cvars, walletProvider, swap, app, viewer, manager>>

exceptSwap == <<pvars, cvars, walletProvider, activity, app, viewer, manager>>

exceptApp == <<pvars, cvars, walletProvider, activity, swap, viewer, manager>>

exceptViewer == <<pvars, cvars, walletProvider, activity, swap, app, manager>>

exceptManager == <<pvars, cvars, walletProvider, activity, swap, app, viewer>>

vars == <<pvars, cvars, components>>

\* --------------------------------------------------------------- state
\* The provider's state as one value, so that cleanup, the timer calls and the
\* steps of ensureConnection are functions from state to state.
Now == [clients |-> clients, ref |-> connectionRef, timers |-> timers,
        isConnecting |-> isConnecting, currentNode |-> currentNode,
        calls |-> calls, fired |-> NoClient, quiet |-> quiet]

NewClient(node) == [sock |-> "closed", wired |-> TRUE, node |-> node]

NoCall == [pc |-> "idle", client |-> NoClient, cur |-> NoClient, attempts |-> 0,
           made |-> 0, err |-> "none", delay |-> 0, result |-> "none"]

InitialRef == [timeoutId |-> NoTimer, backoffTime |-> RECONNECT_DELAY,
               currentNodeIndex |-> 0, sinceLastConnect |-> 1]

TimerCount(s) ==
  LET RECURSIVE Sum(_)
      Sum(K) == IF K = {} THEN 0
                ELSE LET k == CHOOSE x \in K : TRUE IN s.timers[k] + Sum(K \ {k})
  IN Sum(TimerKeys)

TimersFor(s, c) == {k \in TimerKeys : k[1] = c /\ s.timers[k] > 0}

Waiters(s, c) == {p \in Procs : s.calls[p].pc = "waiting" /\ s.calls[p].cur = c}

\* a created client object nothing refers to any more
Garbage(s, c) ==
  /\ c \in Created
  /\ s.clients[c].sock = "closed"
  /\ TimersFor(s, c) = {}
  /\ \A p \in Procs : s.calls[p].cur # c

\* ------------------------------------------------------------- timers
\* clearTimeout(connectionRef.current.timeoutId)
ClearTimeout(s) ==
  IF s.ref.timeoutId = NoTimer THEN s
  ELSE [s EXCEPT !.timers[s.ref.timeoutId] = Max(0, @ - 1)]

\* connectionRef.current.timeoutId = setTimeout(() => cleanup(c), IDLE_TIMEOUT)
SetIdleTimeout(s, c) ==
  [s EXCEPT !.timers[<<c, IdleTicks>>] = @ + 1,
            !.ref.timeoutId = <<c, IdleTicks>>]

\* --------------------------------------------------------------- cleanup
\* cleanup(client): clears the one timer timeoutId names, removes every listener
\* of the client and of its connection, disconnects the client if it is connected.
cleanup(s, c) ==
  LET s1 == [ClearTimeout(s) EXCEPT !.ref.timeoutId = NoTimer]
  IN [s1 EXCEPT !.clients[c].wired = FALSE,
                !.clients[c].sock = IF @ = "open" THEN "closed" ELSE @]

\* ------------------------------------------------------ ensureConnection
\* the promise of ensureConnection settles
Resolve(s, p) ==
  [s EXCEPT !.calls[p].pc = "idle", !.calls[p].result = "ok",
            !.quiet[s.calls[p].client] = 0]

\* outer catch: await cleanup(client); throw error
Reject(s, p, msg) ==
  LET s1 == cleanup(s, s.calls[p].client)
  IN [s1 EXCEPT !.calls[p].pc = "idle", !.calls[p].result = msg]

\* waitForConnection(currentClient) up to client.connect()
StartWait(s, p) ==
  LET c == s.calls[p].cur
  IN [s EXCEPT !.calls[p].pc = "waiting", !.calls[p].made = @ + 1,
               !.clients[c].sock = IF @ = "closed" THEN "connecting" ELSE @]

\* while (attempts < maxAttempts) { await waitForConnection ... } throw
LoopTop(s, p) ==
  IF s.calls[p].attempts < maxAttempts THEN StartWait(s, p)
  ELSE Reject(s, p, MaxAttemptsError)

\* ensureConnection from the isConnected() test on
Entered(s, p) ==
  LET c == s.calls[p].client
  IN IF s.clients[c].sock = "open"
     THEN Resolve(SetIdleTimeout(ClearTimeout(s), c), p)
     ELSE LoopTop([s EXCEPT !.isConnecting = TRUE, !.ref.sinceLastConnect = 0], p)

\* after waitForConnection resolved: arm the idle timer, setIsConnecting(false), return
Connected(s, p) ==
  LET s1 == [s EXCEPT !.ref.backoffTime = RECONNECT_DELAY]
  IN Resolve([SetIdleTimeout(s1, s.calls[p].cur) EXCEPT !.isConnecting = FALSE], p)

RECURSIVE ConnectedAll(_, _)
ConnectedAll(s, W) ==
  IF W = {} THEN s
  ELSE LET p == CHOOSE x \in W : TRUE IN ConnectedAll(Connected(s, p), W \ {p})

\* waitForConnection rejected with msg for every call in W
Caught(s, W, msg) ==
  [s EXCEPT !.calls = [p \in Procs |->
      IF p \in W THEN [s.calls[p] EXCEPT !.pc = "caught", !.err = msg] ELSE s.calls[p]]]

ShouldRotate(msg) == msg \in {"noPermission", "connection"}

\* a rotation that stays on the node it was on
NextNodeIndexStuck(i) == i

NextNodeIndex(i) == (i + 1) % NumNodes

\* a backoff without the cap
BackoffDelayUncapped(backoffTime, attempts) == backoffTime * Pow2(attempts - 1)

BackoffDelay(backoffTime, attempts) ==
  Min(backoffTime * Pow2(attempts - 1), MAX_BACKOFF_DELAY)

\* the created client object switchToNextNode returns
Fresh(s) == CHOOSE c \in Created : Garbage(s, c) /\ \A d \in Created : Garbage(s, d) => c <= d

\* a client object is left for createClient to hand out
CanSwitch(s, p) ==
  \E c \in Created : Garbage([cleanup(s, s.calls[p].cur) EXCEPT !.calls[p].cur = NoClient], c)

\* switchToNextNode(currentClient) up to the one-second wait
switchToNextNode(s, p) ==
  LET s1 == cleanup(s, s.calls[p].cur)
      idx == NextNodeIndex(s1.ref.currentNodeIndex)
      s2 == [s1 EXCEPT !.calls[p].cur = NoClient]
      n == Fresh(s2)
  IN [s2 EXCEPT !.ref.currentNodeIndex = idx,
                !.currentNode = MAINNET_NODES[idx + 1],
                !.clients[n] = NewClient(idx),
                !.calls[p].cur = n,
                !.calls[p].pc = "switching"]

\* the catch block of the retry loop
CatchBlock(s, p) ==
  LET msg == s.calls[p].err
      a == s.calls[p].attempts + 1
      s0 == [s EXCEPT !.calls[p].attempts = a, !.calls[p].err = "none"]
  IN IF ShouldRotate(msg) THEN switchToNextNode(cleanup(s0, s0.calls[p].cur), p)
     ELSE IF a = maxAttempts THEN Reject(s0, p, msg)
     ELSE [s0 EXCEPT !.calls[p].pc = "backoff",
                     !.calls[p].delay = BackoffDelay(s0.ref.backoffTime, a)]

\* ---------------------------------------------------------------- commit
\* Created clients nothing refers to are returned to their initial value. A call
\* that settles in this step shows its outcome (result, client, attempts made) to
\* its caller; one step later its slot is free again.
Normal(s) ==
  [s EXCEPT
     !.clients = [c \in Clients |-> IF Garbage(s, c) THEN NewClient(0) ELSE s.clients[c]],
     !.calls = [p \in Procs |->
        IF s.calls[p].pc # "idle" THEN s.calls[p]
        ELSE IF s.calls[p] = calls[p] THEN NoCall
        ELSE [NoCall EXCEPT !.result = s.calls[p].result, !.client = s.calls[p].client,
                            !.made = s.calls[p].made]]]

WithinBounds(s) ==
  /\ TimerCount(s) <= MaxTimers
  /\ \A p \in Procs : s.calls[p].made <= budget.made

Commit(s) ==
  LET n == Normal(s)
  IN /\ WithinBounds(n)
     /\ clients' = n.clients
     /\ connectionRef' = n.ref
     /\ timers' = n.timers
     /\ isConnecting' = n.isConnecting
     /\ currentNode' = n.currentNode
     /\ calls' = n.calls
     /\ fired' = n.fired
     /\ quiet' = n.quiet
     /\ UNCHANGED <<budget, cvars, components>>

\* --------------------------------------------------------------- actions
\* a caller invokes ensureConnection(c)
EnsureConnection(p, c) ==
  /\ p \in budget.procs /\ c \in budget.callers
  /\ calls[p].pc = "idle"
  /\ LET s == [Now EXCEPT !.calls[p] = [NoCall EXCEPT !.client = c, !.cur = c],
                          !.quiet[c] = 0]
     IN IF connectionRef.sinceLastConnect = 0
        THEN Commit([s EXCEPT !.calls[p].pc = "prewait"])
        ELSE Commit(Entered(s, p))

\* the wait of line 288 is over
BackoffWaitOver(p) ==
  /\ calls[p].pc = "prewait"
  /\ Commit(Entered(Now, p))

\* client.connect() of c completes: handleSuccess runs for the calls still listening
Opened(s, c) ==
  LET s1 == [s EXCEPT !.clients[c].sock = "open"]
  IN IF s.clients[c].wired THEN ConnectedAll(s1, Waiters(s1, c)) ELSE s1

\* the socket of c opens
ConnectOpen(c) ==
  /\ clients[c].sock = "connecting"
  /\ Commit(Opened(Now, c))

\* client.connect() of c rejects with msg
ConnectFail(c, msg) ==
  /\ clients[c].sock = "connecting"
  /\ LET s == [Now EXCEPT !.clients[c].sock = "closed"]
     IN Commit(Caught(s, Waiters(s, c), msg))

\* the CONNECTION_TIMEOUT timer of waitForConnection fires; the socket is left alone
ConnectionTimeout(p) ==
  /\ calls[p].pc = "waiting"
  /\ Commit(Caught(Now, {p}, "Connection timeout"))

\* catch (error) { attempts++ ... }
Catch(p) ==
  /\ calls[p].pc = "caught"
  /\ ShouldRotate(calls[p].err) => CanSwitch(Now, p)
  /\ Commit(CatchBlock(Now, p))

\* the one-second wait of switchToNextNode is over: attempts = Math.max(0, attempts - 1)
SwitchWaitOver(p) ==
  /\ calls[p].pc = "switching"
  /\ Commit(LoopTop([Now EXCEPT !.calls[p].attempts = Max(0, @ - 1)], p))

\* the backoff wait of the retry loop is over
RetryWaitOver(p) ==
  /\ calls[p].pc = "backoff"
  /\ Commit(LoopTop(Now, p))

\* the server or the network closes the socket of c
RemoteClose(c) ==
  /\ clients[c].sock = "open"
  /\ LET s == [Now EXCEPT !.clients[c].sock = "closed"]
         s1 == IF clients[c].wired THEN Caught(s, Waiters(s, c), "Connection closed") ELSE s
     IN Commit(IF clients[c].wired /\ c \in Created THEN cleanup(s1, c) ELSE s1)

\* a caller invokes disconnect(c)
Disconnect(c) ==
  /\ c \in budget.callers
  /\ Commit(cleanup(Now, c))

\* an idle timer is due: cleanup(client)
IdleFire(k) ==
  /\ k[2] = 0 /\ timers[k] > 0
  /\ Commit(cleanup([Now EXCEPT !.timers[k] = @ - 1, !.fired = k[1]], k[1]))

\* the clock advances by one tick; a due timer fires first
Tick ==
  /\ \A k \in TimerKeys : k[2] = 0 => timers[k] = 0
  /\ Commit([Now EXCEPT
       !.timers = [k \in TimerKeys |->
           IF k[2] = IdleTicks THEN 0 ELSE timers[<<k[1], k[2] + 1>>]],
       !.ref.timeoutId = IF @ = NoTimer THEN @ ELSE <<@[1], @[2] - 1>>,
       !.ref.sinceLastConnect = 1,
       !.quiet = [c \in Callers |-> Min(quiet[c] + 1, IdleTicks + 1)]])

InitProvider ==
  /\ clients = [c \in Clients |->
        NewClient(IF c \in Callers THEN NodeIndexOf(MAINNET_URL) ELSE 0)]
  /\ connectionRef = InitialRef
  /\ timers = [k \in TimerKeys |-> 0]
  /\ isConnecting = FALSE
  /\ currentNode = MAINNET_NODES[1]
  /\ calls = [p \in Procs |-> NoCall]
  /\ fired = NoClient
  /\ quiet = [c \in Callers |-> 0]

\* ================================================================ caches
\* WalletProvider of src/src/contexts/WalletContext.tsx keeps three maps in React
\* state; the extension's WalletProvider keeps strings in localStorage.
Addresses == {"rA", "rB"}
Balances == {"0", "25.5"}
AssetLists == {<<>>, <<[currency |-> "USD", balance |-> 7]>>,
               <<[currency |-> "EUR", balance |-> 40], [currency |-> "USD", balance |-> 0]>>}
TxLists == {<<>>, <<"hashA">>}
Kinds == {"balance", "assets", "transactions", "ext_balance", "ext_assets"}
CacheStep == CACHE_DURATION \div 3
None == <<>>
Some(v) == <<v>>
NoRead == [kind |-> "none", address |-> "", value |-> None]

\* { timestamp: Date.now(), data }
CachedData(now, data) == [timestamp |-> now, data |-> data]

\* a write that forgets the spread of the previous map
PutCachedAlone(prev, address, now, data) ==
  [a \in DOMAIN prev |-> IF a = address THEN <<[timestamp |-> now, data |-> data]>> ELSE <<>>]

\* setCachedBalance / updateCachedAssets / setCachedTransactions:
\* setState(prev => ({ ...prev, [address]: { timestamp: Date.now(), data } }))
PutCached(prev, address, now, data) ==
  [prev EXCEPT ![address] = Some(CachedData(now, data))]

\* a read that still serves an entry whose age is exactly CACHE_DURATION
GetCachedInclusive(cache, address, now) ==
  IF cache[address] # None /\ now - cache[address][1].timestamp <= CACHE_DURATION
  THEN Some(cache[address][1].data)
  ELSE None

\* getCachedBalance / getCachedAssets / getCachedTransactions
GetCached(cache, address, now) ==
  IF cache[address] # None /\ now - cache[address][1].timestamp < CACHE_DURATION
  THEN Some(cache[address][1].data)
  ELSE None

\* ---- the extension: localStorage and JSON text
BalanceKey(address) == <<"balance_", address>>
AssetsKey(address) == <<"assets_", address>>
StorageKeys == {BalanceKey(a) : a \in Addresses} \cup {AssetsKey(a) : a \in Addresses}

DigitChars == <<"0", "1", "2", "3", "4", "5", "6", "7", "8", "9">>

DigitValue(ch) == (CHOOSE i \in 1..10 : DigitChars[i] = ch) - 1

\* decimal digits of a number, most significant first
RECURSIVE NumberText(_)
NumberText(n) ==
  IF n < 10 THEN <<DigitChars[n + 1]>> ELSE NumberText(n \div 10) \o <<DigitChars[(n % 10) + 1]>>

RECURSIVE ParseNumber(_)
ParseNumber(ds) ==
  IF Len(ds) = 0 THEN 0
  ELSE 10 * ParseNumber(SubSeq(ds, 1, Len(ds) - 1)) + DigitValue(ds[Len(ds)])

\* JSON.stringify of an asset list, as a sequence of tokens
RECURSIVE Stringify(_)
Stringify(assets) ==
  IF assets = <<>> THEN <<>>
  ELSE <<"{", assets[1].currency, ":">> \o NumberText(assets[1].balance) \o <<"}">>
       \o Stringify(Tail(assets))

\* first position of token tok in text, 0 if none
RECURSIVE Find(_, _, _)
Find(text, tok, i) ==
  IF i > Len(text) THEN 0 ELSE IF text[i] = tok THEN i ELSE Find(text, tok, i + 1)

\* JSON.parse of such a text
RECURSIVE Parse(_)
Parse(text) ==
  IF text = <<>> THEN <<>>
  ELSE LET close == Find(text, "}", 1)
       IN <<[currency |-> text[2], balance |-> ParseNumber(SubSeq(text, 4, close - 1))]>>
          \o Parse(SubSeq(text, close + 1, Len(text)))

\* localStorage.setItem(key, text)
SetItem(storage, key, text) == [storage EXCEPT ![key] = Some(text)]

\* localStorage.getItem(key)
GetItem(storage, key) == storage[key]

\* the extension's getCachedAssets: cached ? JSON.parse(cached) : null
ExtGetAssets(storage, address) ==
  LET cached == GetItem(storage, AssetsKey(address))
  IN IF cached # None THEN Some(Parse(cached[1])) ELSE None

Stores == Cardinality({x \in Kinds \X Addresses : lastStore[x] # None})

Remember(kind, address, value) ==
  lastStore' = [lastStore EXCEPT ![<<kind, address>>] = Some([at |-> dateNow, value |-> value])]

CanStore(kind, address) == lastStore[<<kind, address>>] # None \/ Stores < MaxStores

setCachedBalance(address, balance) ==
  /\ CanStore("balance", address)
  /\ cachedBalances' = PutCached(cachedBalances, address, dateNow, balance)
  /\ Remember("balance", address, balance)
  /\ cacheRead' = NoRead
  /\ UNCHANGED <<cachedAssets, cachedTransactions, localStorage, dateNow, pvars, components>>

updateCachedAssets(address, assets) ==
  /\ CanStore("assets", address)
  /\ cachedAssets' = PutCached(cachedAssets, address, dateNow, assets)
  /\ Remember("assets", address, assets)
  /\ cacheRead' = NoRead
  /\ UNCHANGED <<cachedBalances, cachedTransactions, localStorage, dateNow, pvars, components>>

setCachedTransactions(address, transactions) ==
  /\ CanStore("transactions", address)
  /\ cachedTransactions' = PutCached(cachedTransactions, address, dateNow, transactions)
  /\ Remember("transactions", address, transactions)
  /\ cacheRead' = NoRead
  /\ UNCHANGED <<cachedBalances, cachedAssets, localStorage, dateNow, pvars, components>>

ExtSetCachedBalance(address, balance) ==
  /\ CanStore("ext_balance", address)
  /\ localStorage' = SetItem(localStorage, BalanceKey(address), balance)
  /\ Remember("ext_balance", address, balance)
  /\ cacheRead' = NoRead
  /\ UNCHANGED <<cachedBalances, cachedAssets, cachedTransactions, dateNow, pvars, components>>

ExtSetCachedAssets(address, assets) ==
  /\ CanStore("ext_assets", address)
  /\ localStorage' = SetItem(localStorage, AssetsKey(address), Stringify(assets))
  /\ Remember("ext_assets", address, assets)
  /\ cacheRead' = NoRead
  /\ UNCHANGED <<cachedBalances, cachedAssets, cachedTransactions, dateNow, pvars, components>>

Read(kind, address, value) ==
  /\ cacheRead' = [kind |-> kind, address |-> address, value |-> value]
  /\ UNCHANGED <<cachedBalances, cachedAssets, cachedTransactions, localStorage, dateNow,
                 lastStore, pvars, components>>

getCachedBalance(address) == Read("balance", address, GetCached(cachedBalances, address, dateNow))

getCachedAssets(address) == Read("assets", address, GetCached(cachedAssets, address, dateNow))

getCachedTransactions(address) ==
  Read("transactions", address, GetCached(cachedTransactions, address, dateNow))

ExtGetCachedBalance(address) ==
  Read("ext_balance", address, GetItem(localStorage, BalanceKey(address)))

ExtGetCachedAssets(address) == Read("ext_assets", address, ExtGetAssets(localStorage, address))

\* time passes
ClockAdvance ==
  /\ dateNow < MaxNow * CacheStep
  /\ dateNow' = dateNow + CacheStep
  /\ cacheRead' = NoRead
  /\ UNCHANGED <<cachedBalances, cachedAssets, cachedTransactions, localStorage, lastStore, pvars, components>>

InitCaches ==
  /\ cachedBalances = [a \in Addresses |-> None]
  /\ cachedAssets = [a \in Addresses |-> None]
  /\ cachedTransactions = [a \in Addresses |-> None]
  /\ localStorage = [k \in StorageKeys |-> None]
  /\ dateNow = 0
  /\ cacheRead = NoRead
  /\ lastStore = [x \in Kinds \X Addresses |-> None]

NextCache ==
  \/ \E a \in Addresses, b \in Balances : setCachedBalance(a, b)
  \/ \E a \in Addresses, x \in AssetLists : updateCachedAssets(a, x)
  \/ \E a \in Addresses, x \in TxLists : setCachedTransactions(a, x)
  \/ \E a \in Addresses : getCachedBalance(a)
  \/ \E a \in Addresses : getCachedAssets(a)
  \/ \E a \in Addresses : getCachedTransactions(a)
  \/ \E a \in Addresses, b \in Balances : ExtSetCachedBalance(a, b)
  \/ \E a \in Addresses, x \in AssetLists : ExtSetCachedAssets(a, x)
  \/ \E a \in Addresses : ExtGetCachedBalance(a)
  \/ \E a \in Addresses : ExtGetCachedAssets(a)
  \/ ClockAdvance

\* ================================================================ wallet provider
\* WalletProvider of src/src/contexts/WalletContext.tsx: the wallet, its copy in
\* localStorage, and the connection it keeps through attemptConnection.
W_MAINNET_NODES == <<"wss://xrplcluster.com", "wss://s1.ripple.com", "wss://s2.ripple.com">>
W_RECONNECT_DELAY == 5000
W_MAX_BACKOFF == 30000
MAX_RETRIES == 3
MAX_CONCURRENT_CONNECTIONS == 3

\* App.tsx
MAX_RETRY_ATTEMPTS == 3

INITIAL_RETRY_DELAY == 2000

MAX_RETRY_DELAY == 10000
WClients == 1..MaxWClients
Wallets == {[address |-> "rA", seed |-> "sA"], [address |-> "rB", seed |-> "sB"]}

\* JSON.stringify(newWallet)
StringifyWallet(w) == <<"{", "address", ":", w.address, ",", "seed", ":", w.seed, "}">>

\* JSON.parse(storedWallet)
ParseWallet(text) ==
  [address |-> text[Find(text, "address", 1) + 2], seed |-> text[Find(text, "seed", 1) + 2]]

InitialConnectionState == [isConnecting |-> FALSE, currentNode |-> W_MAINNET_NODES[1],
                           retryCount |-> 0, lastError |-> None]

NewWClient == [sock |-> "none", listening |-> FALSE, node |-> ""]

\* the provider after construction, with the given content of localStorage
InitialWalletProvider(item) ==
  [wallet |-> None, item |-> item, client |-> 0, currentClientRef |-> 0,
   clients |-> [i \in WClients |-> NewWClient],
   attempts |-> [i \in WClients |-> "none"],
   activeConnections |-> 0, connectionState |-> InitialConnectionState,
   reconnectTimeout |-> None, debouncing |-> FALSE, started |-> FALSE, awaited |-> 0,
   error |-> None, isLoading |-> TRUE, disconnected |-> FALSE, delay |-> 0]

\* client.isConnected() of the client in the ref
CurrentConnected(w) ==
  w.currentClientRef # 0 /\ w.clients[w.currentClientRef].sock = "open"

\* a client object nothing refers to any more
WGarbage(w, i) ==
  /\ w.attempts[i] = "done" /\ w.clients[i].sock = "closed"
  /\ w.currentClientRef # i /\ w.client # i /\ w.awaited # i

WFree(w) == {i \in WClients : w.attempts[i] = "none"}

\* cleanupConnection(oldClient): removeAllListeners, then the provider's disconnect
cleanupConnection(w, old) ==
  IF old = 0 THEN w
  ELSE [w EXCEPT !.clients[old].listening = FALSE,
                 !.clients[old].sock = IF @ = "open" THEN "closed" ELSE @]

\* scheduleReconnection, as closed over by the memoised debouncedConnect: the
\* connectionState it reads is the one of the first render
scheduleReconnection(w) ==
  [w EXCEPT !.reconnectTimeout = Some(InitialConnectionState.currentNode),
            !.delay = Min(W_RECONNECT_DELAY * (InitialConnectionState.retryCount + 1),
                          W_MAX_BACKOFF)]

NodeAfter(nodeUrl) ==
  LET currentIndex == (CHOOSE i \in 1..Len(W_MAINNET_NODES) : W_MAINNET_NODES[i] = nodeUrl) - 1
  IN W_MAINNET_NODES[((currentIndex + 1) % Len(W_MAINNET_NODES)) + 1]

\* handleConnectionError(err, nodeUrl)
handleConnectionError(w, msg, nodeUrl) ==
  LET count == w.connectionState.retryCount + 1
      w1 == IF count >= MAX_RETRIES
            THEN [w EXCEPT !.connectionState.lastError = Some(msg),
                           !.connectionState.currentNode = NodeAfter(nodeUrl),
                           !.connectionState.retryCount = 0]
            ELSE [w EXCEPT !.connectionState.lastError = Some(msg),
                           !.connectionState.retryCount = count]
  IN scheduleReconnection(w1)

\* attemptConnection(nodeUrl) up to its await: the guard, the counter, the new client
attemptConnection(w, nodeUrl) ==
  IF w.activeConnections >= MAX_CONCURRENT_CONNECTIONS THEN w
  ELSE LET i == CHOOSE x \in WFree(w) : \A y \in WFree(w) : x <= y
       IN [w EXCEPT !.activeConnections = @ + 1,
                    !.clients[i] = [sock |-> "connecting", listening |-> FALSE, node |-> nodeUrl],
                    !.attempts[i] = "racing"]

\* debounce(attemptConnection, 1000, { leading: true, trailing: false })
debouncedConnect(w, nodeUrl) ==
  IF w.debouncing THEN w ELSE attemptConnection([w EXCEPT !.debouncing = TRUE], nodeUrl)

\* the code after `await debouncedConnect(...)` in initializeWalletAndConnection
LoadStoredWallet(w) ==
  [w EXCEPT !.awaited = 0,
            !.wallet = IF w.item # None THEN Some(ParseWallet(w.item[1])) ELSE @]

\* a finally block that leaves the counter alone
FinishedUncounted(w, i) ==
  LET w1 == [w EXCEPT !.attempts[i] = "done"]
  IN IF w1.awaited = i THEN LoadStoredWallet(w1) ELSE w1

\* attemptConnection's finally block, and the continuation of whoever awaited it
Finished(w, i) ==
  LET w1 == [w EXCEPT !.activeConnections = @ - 1, !.attempts[i] = "done"]
  IN IF w1.awaited = i THEN LoadStoredWallet(w1) ELSE w1

\* attemptConnection after the race was won by ensureConnection
Succeeded(w, i) ==
  LET w1 == cleanupConnection(w, w.currentClientRef)
  IN Finished([w1 EXCEPT !.currentClientRef = i, !.client = i,
                         !.connectionState.isConnecting = FALSE,
                         !.connectionState.lastError = None,
                         !.connectionState.retryCount = 0,
                         !.clients[i].listening = TRUE], i)

\* attemptConnection's catch block
Failed(w, i, msg) == Finished(handleConnectionError(w, msg, w.clients[i].node), i)

WNormal(w) ==
  [w EXCEPT !.clients = [i \in WClients |-> IF WGarbage(w, i) THEN NewWClient ELSE w.clients[i]],
            !.attempts = [i \in WClients |-> IF WGarbage(w, i) THEN "none" ELSE w.attempts[i]]]

WCommit(w) ==
  /\ walletProvider' = WNormal(w)
  /\ UNCHANGED exceptWallet

\* the mount effect: initializeWalletAndConnection up to its await
initializeWalletAndConnection ==
  /\ ~walletProvider.started
  /\ LET w == [walletProvider EXCEPT !.started = TRUE]
     IN IF ~CurrentConnected(w) /\ ~w.connectionState.isConnecting
        THEN LET w1 == debouncedConnect([w EXCEPT !.connectionState.isConnecting = TRUE],
                                        w.connectionState.currentNode)
             IN WCommit([w1 EXCEPT !.awaited = CHOOSE i \in WClients : w1.attempts[i] = "racing"])
        ELSE WCommit(w)

\* ensureConnection(newClient) resolves first; after a rotation inside
\* ensureConnection the client it was given is not the one that is connected
EnsureResolved(i, rotated) ==
  /\ walletProvider.attempts[i] = "racing"
  /\ walletProvider.clients[i].sock = "connecting"
  /\ WCommit(Succeeded([walletProvider EXCEPT
                          !.clients[i].sock = IF rotated THEN "closed" ELSE "open"], i))

\* ensureConnection(newClient) rejects first
EnsureRejected(i) ==
  /\ walletProvider.attempts[i] = "racing"
  /\ walletProvider.clients[i].sock = "connecting"
  /\ WCommit(Failed([walletProvider EXCEPT !.clients[i].sock = "closed"], i,
                    "Failed to connect"))

\* the CONNECTION_TIMEOUT timer rejects first; ensureConnection goes on
WConnectionTimeout(i) ==
  /\ walletProvider.attempts[i] = "racing"
  /\ WCommit(Failed(walletProvider, i, "Connection timeout"))

\* the socket of an attempt that was already given up opens, or fails
LateOpen(i) ==
  /\ walletProvider.attempts[i] = "done"
  /\ walletProvider.clients[i].sock = "connecting"
  /\ WCommit([walletProvider EXCEPT !.clients[i].sock = "open"])

LateFail(i) ==
  /\ walletProvider.attempts[i] = "done"
  /\ walletProvider.clients[i].sock = "connecting"
  /\ WCommit([walletProvider EXCEPT !.clients[i].sock = "closed"])

\* the server closes the socket: the 'disconnected' listener of line 128
ClientDisconnected(i) ==
  /\ walletProvider.clients[i].sock = "open"
  /\ LET w == [walletProvider EXCEPT !.clients[i].sock = "closed"]
     IN WCommit(IF walletProvider.clients[i].listening THEN scheduleReconnection(w) ELSE w)

\* the connection provider's idle timer: cleanup(client) removes the listeners first
IdleCleanup(i) ==
  /\ walletProvider.clients[i].sock = "open"
  /\ WCommit(cleanupConnection(walletProvider, i))

\* the reconnection timer set by scheduleReconnection
ReconnectTimeout ==
  /\ walletProvider.reconnectTimeout # None
  /\ LET w == [walletProvider EXCEPT !.reconnectTimeout = None]
     IN /\ (~CurrentConnected(w) /\ ~w.debouncing
              /\ w.activeConnections < MAX_CONCURRENT_CONNECTIONS) => WFree(w) # {}
        /\ WCommit(IF ~CurrentConnected(w)
                   THEN debouncedConnect(w, walletProvider.reconnectTimeout[1])
                   ELSE w)

\* the debounce window of 1000 ms is over
DebounceElapsed ==
  /\ walletProvider.debouncing
  /\ WCommit([walletProvider EXCEPT !.debouncing = FALSE])

\* createWallet, when ensureConnection and generateWallet succeed
createWallet(newWallet) ==
  /\ walletProvider.client # 0
  /\ WCommit([walletProvider EXCEPT !.item = Some(StringifyWallet(newWallet)),
                                    !.wallet = Some(newWallet),
                                    !.error = None, !.isLoading = FALSE])

\* createWallet, when there is no client or a step throws
createWalletFails ==
  WCommit([walletProvider EXCEPT
             !.error = Some(IF walletProvider.client = 0
                            THEN "No client connection available"
                            ELSE "Failed to create wallet"),
             !.isLoading = FALSE])

\* disconnectWallet of the context value, which a consumer calls once the
\* provider is mounted
disconnectWallet ==
  /\ walletProvider.started
  /\ LET w == cleanupConnection(walletProvider, walletProvider.currentClientRef)
     IN WCommit([w EXCEPT !.currentClientRef = 0, !.wallet = None, !.error = None,
                          !.disconnected = TRUE])

\* the page is loaded again: the provider is constructed anew, localStorage stays
Reload ==
  /\ walletProvider.started
  /\ walletProvider' = InitialWalletProvider(walletProvider.item)
  /\ UNCHANGED exceptWallet


NextWallet ==
  \/ initializeWalletAndConnection
  \/ \E i \in WClients, rotated \in BOOLEAN : EnsureResolved(i, rotated)
  \/ \E i \in WClients : EnsureRejected(i)
  \/ \E i \in WClients : WConnectionTimeout(i)
  \/ \E i \in WClients : LateOpen(i)
  \/ \E i \in WClients : LateFail(i)
  \/ \E i \in WClients : ClientDisconnected(i)
  \/ \E i \in WClients : IdleCleanup(i)
  \/ ReconnectTimeout
  \/ DebounceElapsed
  \/ \E w \in Wallets : createWallet(w)
  \/ createWalletFails
  \/ disconnectWallet
  \/ Reload

\* ================================================================ activity view
\* Activity of src/unnamed/part_003. A function of a render closes over that
\* render's state: a call carries the retryCount and isAccountActivated it sees.
maxRetries == 3
ActivityErrors == {"Account not found", "WebSocket is not open", "Request failed"}
ActivityCalls == 1..MaxActivityCalls
NoActivityCall == [pc |-> "none", retryCount |-> 0, isAccountActivated |-> TRUE,
                   refresh |-> FALSE]

InitialActivity ==
  [mounted |-> FALSE, transactions |-> "none", isLoading |-> TRUE, error |-> None,
   isAccountActivated |-> TRUE, retryCount |-> 0, showRefreshSuccess |-> FALSE,
   calls |-> [c \in ActivityCalls |-> NoActivityCall], timers |-> {}]

\* the state a function of the current render closes over
Closure(a) == [retryCount |-> a.retryCount, isAccountActivated |-> a.isAccountActivated]

FreeCalls(a) == {c \in ActivityCalls : a.calls[c].pc = "none"}

\* checkAccountStatus up to its first await
checkAccountStatus(a, seen, refresh) ==
  LET c == CHOOSE x \in FreeCalls(a) : \A y \in FreeCalls(a) : x <= y
  IN [a EXCEPT !.isLoading = TRUE, !.error = None,
               !.calls[c] = [pc |-> "ensureConnection", retryCount |-> seen.retryCount,
                             isAccountActivated |-> seen.isAccountActivated,
                             refresh |-> refresh]]

\* handleConnectionError of the render the call belongs to
ActivityConnectionError(a, c) ==
  IF a.calls[c].retryCount < maxRetries
  THEN [a EXCEPT !.error = Some(<<"Connection error. Retrying...", a.calls[c].retryCount + 1,
                                  maxRetries>>),
                 !.retryCount = @ + 1,
                 !.timers = @ \cup {[retryCount |-> a.calls[c].retryCount,
                                     isAccountActivated |-> a.calls[c].isAccountActivated]}]
  ELSE [a EXCEPT !.error = Some(<<"Unable to connect to the network. Please try again later.">>)]

\* checkAccountStatus's finally block; handleRefresh's continuation
CallDone(a, c) ==
  [a EXCEPT !.isLoading = FALSE, !.calls[c] = NoActivityCall,
            !.showRefreshSuccess = IF a.calls[c].refresh THEN TRUE ELSE @]

\* checkAccountStatus's catch block
StatusCaught(a, c, msg) ==
  CallDone(IF msg = "Account not found"
           THEN [a EXCEPT !.isAccountActivated = FALSE,
                          !.error = Some(<<"Account needs to be activated with a minimum of 2 XRP">>)]
           ELSE IF msg = "WebSocket is not open" THEN ActivityConnectionError(a, c)
           ELSE [a EXCEPT !.error = Some(<<"Failed to check account status">>)], c)

\* fetchTransactions's catch block, then the return into checkAccountStatus
HistoryCaught(a, c, msg) ==
  CallDone(IF msg = "WebSocket is not open" THEN ActivityConnectionError(a, c)
           ELSE [a EXCEPT !.error = Some(<<"Failed to fetch transaction history">>)], c)

\* the awaited request of call c succeeds
AwaitOk(a, c) ==
  CASE a.calls[c].pc = "ensureConnection" -> [a EXCEPT !.calls[c].pc = "getBalance"]
    [] a.calls[c].pc = "getBalance" ->
         LET a1 == [a EXCEPT !.isAccountActivated = TRUE]
         IN IF ~a.calls[c].isAccountActivated THEN CallDone(a1, c)
            ELSE [a1 EXCEPT !.calls[c].pc = "getTransactionHistory"]
    [] a.calls[c].pc = "getTransactionHistory" ->
         CallDone([a EXCEPT !.transactions = "fetched", !.error = None], c)

\* the awaited request of call c throws
AwaitThrows(a, c, msg) ==
  IF a.calls[c].pc = "getTransactionHistory" THEN HistoryCaught(a, c, msg)
  ELSE StatusCaught(a, c, msg)

\* what the view renders
ErrorShown(a) == a.error # None /\ ~a.isAccountActivated

TryAgainShown(a) == ErrorShown(a) /\ a.retryCount >= maxRetries

ACommit(a) ==
  /\ a.retryCount <= MaxRetryCount
  /\ Cardinality(a.timers) + Cardinality(ActivityCalls \ FreeCalls(a)) <= MaxActivityCalls
  /\ activity' = a
  /\ UNCHANGED exceptActivity

\* the mount effect
ActivityMount(cached) ==
  /\ ~activity.mounted
  /\ LET a == [activity EXCEPT !.mounted = TRUE]
     IN ACommit(IF cached THEN [a EXCEPT !.transactions = "cached", !.isLoading = FALSE]
                ELSE checkAccountStatus(a, Closure(a), FALSE))

RequestOk(c) ==
  /\ activity.calls[c].pc # "none"
  /\ ACommit(AwaitOk(activity, c))

RequestThrows(c, msg) ==
  /\ activity.calls[c].pc # "none"
  /\ ACommit(AwaitThrows(activity, c, msg))

\* setTimeout(checkAccountStatus, 2000) fires
RetryTimer(seen) ==
  /\ seen \in activity.timers
  /\ FreeCalls(activity) # {}
  /\ ACommit(checkAccountStatus([activity EXCEPT !.timers = @ \ {seen}], seen, FALSE))

\* the Try Again button
handleRetry ==
  /\ activity.mounted /\ TryAgainShown(activity)
  /\ FreeCalls(activity) # {}
  /\ ACommit(checkAccountStatus([activity EXCEPT !.retryCount = 0, !.error = None],
                                Closure(activity), FALSE))

\* the refresh button, disabled while loading
handleRefresh ==
  /\ activity.mounted /\ ~activity.isLoading
  /\ FreeCalls(activity) # {}
  /\ ACommit(checkAccountStatus(activity, Closure(activity), TRUE))

\* setTimeout(() => setShowRefreshSuccess(false), 2000) fires
HideRefreshSuccess ==
  /\ activity.showRefreshSuccess
  /\ ACommit([activity EXCEPT !.showRefreshSuccess = FALSE])

NextActivity ==
  \/ \E cached \in BOOLEAN : ActivityMount(cached)
  \/ \E c \in ActivityCalls : RequestOk(c)
  \/ \E c \in ActivityCalls, msg \in ActivityErrors : RequestThrows(c, msg)
  \/ \E seen \in activity.timers : RetryTimer(seen)
  \/ handleRetry
  \/ handleRefresh
  \/ HideRefreshSuccess

\* ================================================================ token swap
\* TokenSwap of src/unnamed/part_004. Amounts are the text of the input field, a
\* sequence of characters.
XRP == [currency |-> "XRP", issuer |-> ""]
Tokens == {XRP, [currency |-> "USD", issuer |-> "rIssuerA"],
           [currency |-> "USD", issuer |-> "rIssuerB"]}
Amounts == {<<>>, <<"a">>, <<"0">>, <<"2">>,
            <<"0", ".", "0", "0", "0", "0", "0", "1">>,
            <<"1", ".", "1", "2", "3", "4", "5", "6", "7">>}
DigitSet == {DigitChars[i] : i \in 1..10}

IntDigits(text) ==
  LET dot == Find(text, ".", 1) IN IF dot = 0 THEN text ELSE SubSeq(text, 1, dot - 1)

\* amount.split('.')[1]
FracDigits(text) ==
  LET dot == Find(text, ".", 1) IN IF dot = 0 THEN <<>> ELSE SubSeq(text, dot + 1, Len(text))

\* isNaN(Number(amount)); Number('') is 0
IsNaN(text) ==
  /\ text # <<>>
  /\ \/ \E i \in 1..Len(text) : text[i] \notin DigitSet \cup {"."}
     \/ Cardinality({i \in 1..Len(text) : text[i] = "."}) > 1
     \/ \A i \in 1..Len(text) : text[i] = "."

AllZero(ds) == \A i \in 1..Len(ds) : ds[i] = "0"

\* Number(amount) <= 0, for the unsigned texts of the model
NotPositive(text) == ~IsNaN(text) /\ AllZero(IntDigits(text)) /\ AllZero(FracDigits(text))

\* Number(amount) < 0.00001
BelowMinimumXrp(text) ==
  /\ AllZero(IntDigits(text))
  /\ \A i \in 1..5 : i <= Len(FracDigits(text)) => FracDigits(text)[i] = "0"

\* validateAmount(amount, currency): the message it throws, or "ok"
validateAmount(amount, currency) ==
  IF IsNaN(amount) \/ NotPositive(amount) THEN "Please enter a valid amount greater than 0"
  ELSE IF currency = "XRP" /\ BelowMinimumXrp(amount) THEN "Minimum XRP amount is 0.00001"
  ELSE IF currency # "XRP" /\ Len(FracDigits(amount)) > 6
       THEN "Maximum 6 decimal places allowed for tokens"
  ELSE "ok"

\* safeRequest's wait before the next attempt, attempts being those left
RetryDelayFlat(attempts) == 2000

RetryDelay(attempts) == (4 - attempts) * 2000

NoSwapCall == [pc |-> "idle", attempts |-> 0, retries |-> 0, requests |-> 0,
               fresh |-> FALSE, waits |-> <<>>, submitted |-> {}, thrown |-> None]

InitialSwap ==
  [fromToken |-> Some(XRP), toToken |-> None, amount |-> <<>>, isLoading |-> FALSE,
   error |-> None, success |-> None, showTokenSelect |-> None, connected |-> FALSE,
   call |-> NoSwapCall]

SCommit(s) ==
  /\ swap' = s
  /\ UNCHANGED exceptSwap

\* the two token buttons and the close button of the selector; the form is
\* edited between swaps
setShowTokenSelect(side) ==
  /\ swap.call.pc = "idle"
  /\ swap.showTokenSelect # side
  /\ SCommit([swap EXCEPT !.showTokenSelect = side])

\* handleTokenSelect(token); toToken! passes null on as it is
handleTokenSelect(token) ==
  /\ swap.call.pc = "idle"
  /\ swap.showTokenSelect # None
  /\ LET s == IF swap.showTokenSelect = Some("from")
              THEN [swap EXCEPT !.fromToken = Some(token),
                                !.toToken = IF swap.toToken = Some(token)
                                            THEN swap.fromToken ELSE @]
              ELSE [swap EXCEPT !.toToken = Some(token),
                                !.fromToken = IF swap.fromToken = Some(token)
                                              THEN swap.toToken ELSE @]
     IN SCommit([s EXCEPT !.showTokenSelect = None])

\* handleSwapTokens
handleSwapTokens ==
  /\ swap.call.pc = "idle"
  /\ swap.toToken # None
  /\ SCommit([swap EXCEPT !.fromToken = swap.toToken, !.toToken = swap.fromToken])

\* the amount field
setAmount(text) ==
  /\ swap.call.pc = "idle" /\ swap.amount # text
  /\ SCommit([swap EXCEPT !.amount = text])

\* handleSwap's catch block: setError, then loadAvailableTokens
SwapThrows(s, msg) ==
  [s EXCEPT !.error = Some(msg), !.call.pc = "reloadAfterError"]

\* the message findSwapPath's catch block throws for the error it caught
PathError(msg) ==
  CASE msg = "noPermission" -> "Connection permission denied. Please try again."
    [] msg = "tecNO_PATH" ->
         "No valid path found for this swap. Please try a different amount or pair."
    [] msg \in {"Connection permission denied. Please try again.",
                "Failed to establish connection"} ->
         "Network connection issue. Please check your connection and try again."
    [] msg = "No path found for this swap. Please try a different amount or pair." -> msg
    [] OTHER -> "Failed to find swap path. Please try again."

\* findSwapPath up to the first await of safeRequest
findSwapPath(s) ==
  LET v == validateAmount(s.amount, s.toToken[1].currency)
  IN IF v # "ok" THEN SwapThrows(s, v)
     ELSE [s EXCEPT !.call.pc = "srConnect", !.call.attempts = 3]

\* safeRequest's catch block up to its await
safeRequestCatch(s, msg) ==
  IF msg = "noPermission"
  THEN SwapThrows(s, PathError("Connection permission denied. Please try again."))
  ELSE [s EXCEPT !.call.pc = "srDisconnect", !.call.thrown = Some(msg), !.call.fresh = FALSE]

\* the swap button, enabled unless isLoading || !amount || Number(amount) <= 0
handleSwap ==
  /\ swap.call.pc = "idle"
  /\ ~swap.isLoading /\ swap.amount # <<>> /\ ~NotPositive(swap.amount)
  /\ swap.toToken # None
  /\ LET s == [swap EXCEPT !.isLoading = TRUE, !.error = None, !.success = None,
                           !.call = [NoSwapCall EXCEPT !.pc = "safeConnect"]]
     IN SCommit(IF IsNaN(swap.amount) \/ NotPositive(swap.amount)
                THEN SwapThrows(s, "Please enter a valid amount greater than 0")
                ELSE s)

\* await safeConnect() in handleSwap
SafeConnected(ok) ==
  /\ swap.call.pc = "safeConnect"
  /\ LET s == [swap EXCEPT !.connected = ok]
     IN SCommit(IF ~ok THEN SwapThrows(s, "Failed to establish connection. Please try again.")
                ELSE IF s.toToken[1].currency # "XRP"
                     THEN [s EXCEPT !.call.pc = "checkTrustlineExists"]
                     ELSE findSwapPath(s))

\* await checkTrustlineExists(...)
TrustlineChecked(exists) ==
  /\ swap.call.pc = "checkTrustlineExists"
  /\ SCommit(IF exists THEN findSwapPath(swap)
             ELSE [swap EXCEPT !.call.pc = "setupTrustline"])

\* await setupTrustline(...): the TrustSet is validated, or the call throws
TrustlineSet(outcome) ==
  /\ swap.call.pc = "setupTrustline"
  /\ SCommit(CASE outcome = "ok" ->
                    findSwapPath([swap EXCEPT !.call.submitted = @ \cup {"TrustSet"}])
               [] outcome = "tecNO_LINE_REDUNDANT" -> findSwapPath(swap)
               [] OTHER -> SwapThrows(swap, "Failed to setup trustline"))

\* await safeConnect() in safeRequest
RequestConnected(ok) ==
  /\ swap.call.pc = "srConnect"
  /\ SCommit(IF ok THEN [swap EXCEPT !.connected = TRUE, !.call.fresh = TRUE,
                                     !.call.requests = @ + 1, !.call.pc = "srRequest"]
             ELSE safeRequestCatch([swap EXCEPT !.connected = FALSE],
                                   "Failed to establish connection"))

\* the race of client.request(request) and the timeout settles
RequestSettled(outcome) ==
  /\ swap.call.pc = "srRequest"
  /\ SCommit(CASE outcome = "path" -> [swap EXCEPT !.call.pc = "subConnect", !.call.retries = 3]
               [] outcome = "no alternatives" ->
                    SwapThrows(swap, PathError("No path found for this swap. Please try a different amount or pair."))
               [] OTHER -> safeRequestCatch(swap, outcome))

\* await safeDisconnect() in safeRequest's catch block, then the countdown
RequestDisconnected ==
  /\ swap.call.pc = "srDisconnect"
  /\ LET left == swap.call.attempts - 1
         s == [swap EXCEPT !.connected = FALSE, !.call.attempts = left]
     IN SCommit(IF left = 0 THEN SwapThrows(s, PathError(swap.call.thrown[1]))
                ELSE [s EXCEPT !.call.pc = "srBackoff",
                               !.call.waits = Append(@, RetryDelay(left))])

\* safeRequest's backoff timer
RequestBackoffOver ==
  /\ swap.call.pc = "srBackoff"
  /\ SCommit([swap EXCEPT !.call.pc = "srConnect"])

\* await safeConnect() in the submit loop
SubmitConnected(ok) ==
  /\ swap.call.pc = "subConnect"
  /\ SCommit([swap EXCEPT !.connected = ok,
                          !.call.pc = IF ok THEN "submitTransaction" ELSE "subDisconnect"])

\* await submitTransaction(client, wallet, payment)
PaymentSettled(ok) ==
  /\ swap.call.pc = "submitTransaction"
  /\ SCommit(IF ok THEN [swap EXCEPT !.call.submitted = @ \cup {"Payment"},
                                     !.success = Some("Swap completed successfully!"),
                                     !.call.pc = "reload"]
             ELSE [swap EXCEPT !.call.pc = "subDisconnect"])

\* await safeDisconnect() in the submit loop, then the countdown
SubmitDisconnected ==
  /\ swap.call.pc = "subDisconnect"
  /\ LET left == swap.call.retries - 1
         s == [swap EXCEPT !.connected = FALSE, !.call.retries = left]
     IN SCommit(IF left = 0
                THEN SwapThrows(s, "Failed to submit transaction after multiple attempts. Please try again.")
                ELSE [s EXCEPT !.call.pc = "subBackoff"])

SubmitBackoffOver ==
  /\ swap.call.pc = "subBackoff"
  /\ SCommit([swap EXCEPT !.call.pc = "subConnect"])

\* await loadAvailableTokens(), then the finally block up to its await
TokensReloaded ==
  /\ swap.call.pc \in {"reload", "reloadAfterError"}
  /\ SCommit([swap EXCEPT !.isLoading = FALSE, !.call.pc = "finalDisconnect"])

\* await safeDisconnect() in the finally block
FinalDisconnected ==
  /\ swap.call.pc = "finalDisconnect"
  /\ SCommit([swap EXCEPT !.connected = FALSE, !.call.pc = "idle"])

\* the steps of a swap in progress
SwapProgress ==
  \/ \E ok \in BOOLEAN : SafeConnected(ok)
  \/ \E exists \in BOOLEAN : TrustlineChecked(exists)
  \/ \E outcome \in {"ok", "tecNO_LINE_REDUNDANT", "tecUNFUNDED"} : TrustlineSet(outcome)
  \/ \E ok \in BOOLEAN : RequestConnected(ok)
  \/ \E outcome \in {"path", "no alternatives", "noPermission", "Request timed out",
                     "tecNO_PATH"} : RequestSettled(outcome)
  \/ RequestDisconnected
  \/ RequestBackoffOver
  \/ \E ok \in BOOLEAN : SubmitConnected(ok)
  \/ \E ok \in BOOLEAN : PaymentSettled(ok)
  \/ SubmitDisconnected
  \/ SubmitBackoffOver
  \/ TokensReloaded
  \/ FinalDisconnected

NextSwap ==
  \/ \E side \in {None, Some("from"), Some("to")} : setShowTokenSelect(side)
  \/ \E token \in Tokens : handleTokenSelect(token)
  \/ handleSwapTokens
  \/ \E text \in Amounts : setAmount(text)
  \/ handleSwap
  \/ SwapProgress

\* ------------------------------------------------------------------- App
\* The App component: its React state, its refs (retryCount, retryTimeout,
\* isReconnecting), the client objects initializeWallet has created, the pending
\* retry timer. A function of a render sees the client and the wallet of that
\* render; the steps below carry that pair with the client object or the timer
\* the function created. retryTimeout is the pending timer retryTimeout.current
\* names: the catch block is the only place that sets a timer, and it runs
\* with no timer pending, because initializeWallet has cleared the last one.
TESTNET_URL == "wss://s.altnet.rippletest.net:51233"

AppClients == 1..MaxAppClients

Networks == {"mainnet", "testnet"}

IpLimit == "IP limit reached"

ConnectErrors == {IpLimit, "connect ECONNREFUSED"}

LimitReached == "Connection limit reached. Please wait a moment before trying again."

GaveUp == "Unable to connect after multiple attempts. Please try again later."

FailedToConnect == "Failed to connect to network. Please try again."

\* client and wallet as the first render sees them
FirstRender == [client |-> None, wallet |-> None]

\* client and wallet as the current render sees them
Render(a) == [client |-> a.client, wallet |-> a.wallet]

NoAppClient == [sock |-> "none", listening |-> FALSE, url |-> "", networkType |-> "mainnet",
                seen |-> FirstRender, dropped |-> FALSE]

InitialApp(item, storedNetwork) ==
  [mounted |-> FALSE, client |-> None, wallet |-> None, network |-> "mainnet",
   isFirstTimeUser |-> TRUE, isConnecting |-> FALSE, connectionError |-> None,
   retryCount |-> 0, retryTimeout |-> None, isReconnecting |-> FALSE,
   clients |-> [i \in AppClients |-> NoAppClient], debounced |-> {},
   item |-> item, storedNetwork |-> storedNetwork, retries |-> 0]

AppFree(a) == {i \in AppClients : a.clients[i].sock = "none"}

\* the object new Client(...) returns: client objects are numbered as they are created
NewAppClient(a) == CHOOSE i \in AppFree(a) : \A j \in AppFree(a) : i <= j

UrlOf(networkType) == IF networkType = "mainnet" THEN MAINNET_URL ELSE TESTNET_URL

\* Math.min(INITIAL_RETRY_DELAY * Math.pow(2, retryCount.current), MAX_RETRY_DELAY)
AppRetryDelay(retryCount) == Min(INITIAL_RETRY_DELAY * Pow2(retryCount), MAX_RETRY_DELAY)

\* cleanupConnection of the render that sees seen
AppCleanupConnection(a, seen) ==
  LET a1 == [a EXCEPT !.retryTimeout = None]
      a2 == IF seen.client = None THEN a1
            ELSE [a1 EXCEPT !.clients[seen.client[1]].listening = FALSE,
                            !.clients[seen.client[1]].sock = IF @ = "open" THEN "closed" ELSE @]
  IN [a2 EXCEPT !.retryCount = 0, !.isReconnecting = FALSE]

\* initializeWallet(networkType) up to await newClient.connect()
initializeWallet(a, networkType, seen) ==
  IF a.isReconnecting THEN [a EXCEPT !.isConnecting = FALSE]
  ELSE LET a1 == AppCleanupConnection(
                   [a EXCEPT !.isConnecting = TRUE, !.connectionError = None], seen)
       IN [a1 EXCEPT !.clients[NewAppClient(a1)] =
             [sock |-> "connecting", listening |-> TRUE, url |-> UrlOf(networkType),
              networkType |-> networkType, seen |-> seen, dropped |-> FALSE]]

\* initializeWallet after newClient.connect() resolved
AppConnected(a, i) ==
  LET a1 == [a EXCEPT !.clients[i].sock = "open", !.client = Some(i),
                      !.retryCount = 0, !.retries = 0]
      a2 == IF a.clients[i].seen.wallet = None /\ a.item # None
            THEN [a1 EXCEPT !.wallet = Some(ParseWallet(a.item[1]))] ELSE a1
  IN [a2 EXCEPT !.isConnecting = FALSE]

\* the catch block of initializeWallet
AppConnectFailed(a, i, msg) ==
  LET c == a.clients[i]
      a1 == [a EXCEPT !.clients[i].sock = "closed"]
      a2 == IF msg = IpLimit
            THEN [a1 EXCEPT
                    !.connectionError = Some(LimitReached),
                    !.retryTimeout = Some([delay |-> AppRetryDelay(a1.retryCount),
                                           networkType |-> c.networkType, seen |-> c.seen,
                                           nth |-> a1.retries])]
            ELSE [a1 EXCEPT !.connectionError = Some(FailedToConnect), !.retries = 0]
  IN [a2 EXCEPT !.isConnecting = FALSE]

\* the callback of the retry timer t
AppRetry(a, t) ==
  LET a1 == [a EXCEPT !.retryCount = @ + 1]
  IN IF a1.retryCount <= MAX_RETRY_ATTEMPTS
     THEN initializeWallet([a1 EXCEPT !.retries = IF a1.isReconnecting THEN @ ELSE @ + 1],
                           t.networkType, t.seen)
     ELSE [a1 EXCEPT !.connectionError = Some(GaveUp)]

\* handleReconnect(networkType) of the render that created client i: debounced,
\* leading edge only
handleReconnect(a, i) ==
  LET c == a.clients[i]
  IN IF c.seen \in a.debounced THEN a
     ELSE LET a1 == [a EXCEPT !.debounced = @ \cup {c.seen}]
          IN IF a1.isReconnecting THEN a1
             ELSE initializeWallet([a1 EXCEPT !.isReconnecting = TRUE], c.networkType, c.seen)

AppCommit(a) ==
  /\ app' = a
  /\ UNCHANGED exceptApp

\* the mount effect
AppMount ==
  /\ ~app.mounted
  /\ LET networkType == IF app.storedNetwork = None THEN "mainnet" ELSE app.storedNetwork[1]
         a1 == IF app.item # None
               THEN [app EXCEPT !.wallet = Some(ParseWallet(app.item[1])),
                                !.isFirstTimeUser = FALSE]
               ELSE [app EXCEPT !.isFirstTimeUser = TRUE]
     IN AppCommit(initializeWallet([a1 EXCEPT !.mounted = TRUE, !.network = networkType],
                                   networkType, FirstRender))

\* newClient.connect() of client i resolves
AppConnectResolved(i) ==
  /\ app.clients[i].sock = "connecting"
  /\ AppCommit(AppConnected(app, i))

\* newClient.connect() of client i rejects with msg
AppConnectRejected(i, msg) ==
  /\ app.clients[i].sock = "connecting"
  /\ AppCommit(AppConnectFailed(app, i, msg))

\* the retry timer retryTimeout.current names fires
AppRetryTimeout ==
  /\ app.retryTimeout # None
  /\ AppFree(app) # {}
  /\ AppCommit(AppRetry([app EXCEPT !.retryTimeout = None], app.retryTimeout[1]))

\* the connection of client i is lost: 'disconnected' is emitted
AppClientDisconnected(i) ==
  /\ app.clients[i].sock = "open"
  /\ AppFree(app) # {}
  /\ LET a1 == [app EXCEPT !.clients[i].sock = "closed"]
     IN AppCommit(IF app.clients[i].listening
                  THEN handleReconnect([a1 EXCEPT !.clients[i].dropped = TRUE], i)
                  ELSE a1)

\* five seconds have passed since the last call of a debounced handleReconnect
AppDebounceElapsed(seen) ==
  /\ seen \in app.debounced
  /\ AppCommit([app EXCEPT !.debounced = @ \ {seen}])

\* WalletCreator reports the wallet it created
handleWalletCreated(newWallet) ==
  /\ app.mounted /\ app.isFirstTimeUser /\ app.client # None
  /\ AppCommit([app EXCEPT !.wallet = Some(newWallet),
                           !.item = Some(StringifyWallet(newWallet)),
                           !.storedNetwork = Some("mainnet"),
                           !.isFirstTimeUser = FALSE])

\* the user picks a network in WalletViewer or Settings
handleNetworkChange(newNetwork) ==
  /\ app.mounted /\ ~app.isFirstTimeUser
  /\ app.client # None /\ app.wallet # None /\ ~app.isConnecting
  /\ AppFree(app) # {}
  /\ AppCommit(initializeWallet([app EXCEPT !.network = newNetwork,
                                            !.storedNetwork = Some(newNetwork),
                                            !.retries = 0],
                                newNetwork, Render(app)))

\* the page is reloaded: the effect's cleanup runs, timers and sockets go with the
\* page, localStorage stays
AppReload ==
  /\ app.mounted
  /\ AppFree(app) # {}
  /\ AppCommit([InitialApp(app.item, app.storedNetwork) EXCEPT
        !.clients = [i \in AppClients |->
            IF app.clients[i].sock = "none" THEN NoAppClient
            ELSE [app.clients[i] EXCEPT !.sock = "closed", !.listening = FALSE]]])

\* what happens without the user
AppProgress ==
  \/ AppMount
  \/ \E i \in AppClients : AppConnectResolved(i)
  \/ \E i \in AppClients, msg \in ConnectErrors : AppConnectRejected(i, msg)
  \/ AppRetryTimeout
  \/ \E seen \in app.debounced : AppDebounceElapsed(seen)

NextApp ==
  \/ AppProgress
  \/ \E i \in AppClients : AppClientDisconnected(i)
  \/ \E w \in Wallets : handleWalletCreated(w)
  \/ \E n \in Networks : handleNetworkChange(n)
  \/ AppReload

\* ---------------------------------------------------------- WalletViewer
\* One mounted WalletViewer: its React state, its refs, the fetchWalletData and
\* handleReconnect invocations in flight, its timers. Date.now() is dateNow. The
\* effect that owns the auto-refresh interval depends on isLoading and on
\* debouncedFetchWalletData: each change of either runs its cleanup, which clears
\* the timers retryTimeoutRef and reconnectTimeoutRef name, and arms a new interval.
V_INITIAL_RETRY_DELAY == 2000

V_MAX_RETRY_DELAY == 32000

V_MAX_RETRIES == 3

AUTO_REFRESH_INTERVAL == 30000

MIN_FETCH_INTERVAL == 10000

\* the clock of the viewer advances by the shortest of its delays
ViewerStep == V_INITIAL_RETRY_DELAY

ViewerCalls == 1..MaxViewerCalls

ViewerAddress == "rA"

ViewerErrors == {"Account not found."}

\* result.lines of an account_lines response; <<>> when the field is missing
LineLists == {None,
              Some(<<[currency |-> "USD", account |-> "rIssuerA",
                      balance |-> <<"1", "7">>, limit |-> "100"]>>)}

\* lines.map(line => ({ currency, issuer: line.account, balance: parseFloat(line.balance),
\* limit })), without the display metadata of getTokenInfo
FormatAssets(lines) ==
  [k \in DOMAIN lines |-> [currency |-> lines[k].currency, issuer |-> lines[k].account,
                           balance |-> ParseNumber(lines[k].balance),
                           limit |-> lines[k].limit]]

NoViewerCall == [pc |-> "idle", retryCount |-> 0]

InitialViewer ==
  [started |-> FALSE, isMounted |-> TRUE, isLoading |-> FALSE, error |-> None,
   isConnected |-> FALSE, balance |-> "0", assets |-> <<>>, lastFetch |-> None,
   timers |-> {}, retryTimeoutRef |-> None, reconnectTimeoutRef |-> None,
   interval |-> None, debounced |-> FALSE, seenLoading |-> FALSE,
   calls |-> [c \in ViewerCalls |-> NoViewerCall],
   fetched |-> None, runs |-> 0]

ViewerFree(v) == {c \in ViewerCalls : v.calls[c].pc = "idle"}

\* clearTimeout(ref.current)
ClearTimer(v, ref) == IF ref = None THEN v ELSE [v EXCEPT !.timers = @ \ {ref[1]}]

\* the cleanup of the interval effect followed by the effect itself
RunIntervalEffect(v, now) ==
  LET v1 == ClearTimer(ClearTimer(v, v.retryTimeoutRef), v.reconnectTimeoutRef)
  IN [v1 EXCEPT !.interval = Some(now + AUTO_REFRESH_INTERVAL)]

\* setIsLoading(b) and the render it causes
SetIsLoading(v, b, now) ==
  IF v.isLoading = b THEN v ELSE RunIntervalEffect([v EXCEPT !.isLoading = b], now)

\* a guard that lets every call through
PassesGuardAlways(lastFetch, now) == TRUE

\* now - lastFetchRef.current < MIN_FETCH_INTERVAL does not hold. Date.now() counts
\* from 1970 and dateNow from the start of the page: the initial lastFetchRef, 0, is
\* more than MIN_FETCH_INTERVAL in the past; it is None here.
PassesGuard(lastFetch, now) ==
  lastFetch = None \/ ~(now - lastFetch[1] < MIN_FETCH_INTERVAL)

\* Math.min(INITIAL_RETRY_DELAY * Math.pow(2, retryCount), MAX_RETRY_DELAY)
ViewerRetryDelay(retryCount) ==
  Min(V_INITIAL_RETRY_DELAY * Pow2(retryCount), V_MAX_RETRY_DELAY)

\* fetchWalletData(retryCount) in call slot c, up to await ensureConnection(client)
fetchWalletData(v, c, retryCount, now) ==
  IF ~v.isMounted \/ ~PassesGuard(v.lastFetch, now)
  THEN [v EXCEPT !.calls[c] = NoViewerCall]
  ELSE SetIsLoading([v EXCEPT !.lastFetch = Some(now),
                              !.fetched = Some(now),
                              !.error = None,
                              !.calls[c] = [pc |-> "ensure", retryCount |-> retryCount]],
                    TRUE, now)

\* debouncedFetchWalletData(): leading edge only
debouncedFetchWalletData(v, now) ==
  IF v.debounced THEN v
  ELSE fetchWalletData([v EXCEPT !.debounced = TRUE],
                       CHOOSE c \in ViewerFree(v) : TRUE, 0, now)

\* setTimeout(..., delay) stored in a ref
SetViewerTimer(v, timer, kind) ==
  IF kind = "retry"
  THEN [v EXCEPT !.timers = @ \cup {timer}, !.retryTimeoutRef = Some(timer)]
  ELSE [v EXCEPT !.timers = @ \cup {timer}, !.reconnectTimeoutRef = Some(timer)]

ReconnectTimer(v, now) ==
  [kind |-> "reconnect", due |-> now + V_INITIAL_RETRY_DELAY, retryCount |-> 0,
   seenLoading |-> v.seenLoading]

\* the catch and finally blocks of fetchWalletData
FetchCaught(v, c, msg, now) ==
  LET retryCount == v.calls[c].retryCount
      v0 == [v EXCEPT !.calls[c] = NoViewerCall]
      v1 == [v0 EXCEPT !.error = Some(msg), !.isConnected = FALSE]
      v2 == IF retryCount < V_MAX_RETRIES
            THEN SetViewerTimer(v1, [kind |-> "retry", due |-> now + ViewerRetryDelay(retryCount),
                                     retryCount |-> retryCount + 1,
                                     seenLoading |-> v.seenLoading], "retry")
            ELSE SetViewerTimer(v1, ReconnectTimer(v1, now), "reconnect")
  IN IF ~v.isMounted THEN v0 ELSE SetIsLoading(v2, FALSE, now)

\* fetchWalletData after the account_lines response
FetchDone(v, c, lines, now) ==
  LET v0 == [v EXCEPT !.calls[c] = NoViewerCall]
      v1 == IF lines = None THEN v0 ELSE [v0 EXCEPT !.assets = FormatAssets(lines[1])]
  IN IF ~v.isMounted THEN v0
     ELSE SetIsLoading([v1 EXCEPT !.isConnected = TRUE, !.error = None], FALSE, now)

ViewerCommit(v) ==
  /\ viewer' = v
  /\ UNCHANGED exceptViewer

\* the effect that loads the wallet data: it runs at mount and again whenever a
\* render of the providers hands the viewer new functions, which also renews
\* debouncedFetchWalletData and with it the interval effect
ViewerInitialize ==
  /\ viewer.isMounted /\ viewer.runs < MaxViewerRuns
  /\ ViewerFree(viewer) # {}
  /\ LET c == CHOOSE x \in ViewerFree(viewer) : TRUE
         v == RunIntervalEffect([viewer EXCEPT !.started = TRUE, !.debounced = FALSE,
                                               !.runs = @ + 1,
                                               !.seenLoading = viewer.isLoading], dateNow)
     IN ViewerCommit([v EXCEPT !.calls[c] = [pc |-> "init", retryCount |-> 0]])

\* ensureConnection(client) resolves
ViewerConnected(c) ==
  /\ viewer.calls[c].pc \in {"init", "reconnect", "ensure"}
  /\ ViewerCommit(IF viewer.calls[c].pc = "ensure"
                  THEN [viewer EXCEPT !.calls[c].pc = "balance"]
                  ELSE fetchWalletData(viewer, c, 0, dateNow))

\* ensureConnection(client) rejects
ViewerConnectFailed(c, msg) ==
  /\ viewer.calls[c].pc \in {"init", "reconnect", "ensure"}
  /\ LET v0 == [viewer EXCEPT !.calls[c] = NoViewerCall]
     IN ViewerCommit(
          CASE viewer.calls[c].pc = "ensure" -> FetchCaught(viewer, c, msg, dateNow)
            [] viewer.calls[c].pc = "init" ->
                 IF viewer.isMounted
                 THEN [v0 EXCEPT !.error = Some(msg), !.isConnected = FALSE] ELSE v0
            [] OTHER -> SetViewerTimer(v0, ReconnectTimer(v0, dateNow), "reconnect"))

\* client.getXrpBalance resolves: setBalance, setCachedBalance
BalanceResolved(c, balanceResponse) ==
  /\ viewer.calls[c].pc = "balance"
  /\ IF ~viewer.isMounted
     THEN ViewerCommit([viewer EXCEPT !.calls[c] = NoViewerCall])
     ELSE /\ viewer' = [viewer EXCEPT !.balance = balanceResponse, !.calls[c].pc = "lines"]
          /\ cachedBalances' = PutCached(cachedBalances, ViewerAddress, dateNow, balanceResponse)
          /\ Remember("balance", ViewerAddress, balanceResponse)
          /\ UNCHANGED <<cachedAssets, cachedTransactions, localStorage, dateNow, cacheRead,
                         pvars, walletProvider, activity, swap, app, manager>>

\* the account_lines request resolves: setAssets, setCachedAssets, finally
LinesResolved(c, lines) ==
  /\ viewer.calls[c].pc = "lines"
  /\ IF ~viewer.isMounted \/ lines = None
     THEN ViewerCommit(FetchDone(viewer, c, lines, dateNow))
     ELSE /\ viewer' = FetchDone(viewer, c, lines, dateNow)
          /\ cachedAssets' = PutCached(cachedAssets, ViewerAddress, dateNow, FormatAssets(lines[1]))
          /\ Remember("assets", ViewerAddress, FormatAssets(lines[1]))
          /\ UNCHANGED <<cachedBalances, cachedTransactions, localStorage, dateNow, cacheRead,
                         pvars, walletProvider, activity, swap, app, manager>>

\* getXrpBalance or the account_lines request rejects
RequestRejected(c, msg) ==
  /\ viewer.calls[c].pc \in {"balance", "lines"}
  /\ ViewerCommit(FetchCaught(viewer, c, msg, dateNow))

\* the refresh button
ViewerRefresh ==
  /\ viewer.started /\ viewer.isMounted /\ ~viewer.isLoading
  /\ viewer.runs < MaxViewerRuns
  /\ ViewerFree(viewer) # {}
  /\ ViewerCommit(debouncedFetchWalletData([viewer EXCEPT !.runs = @ + 1], dateNow))

\* the auto-refresh interval fires
AutoRefresh ==
  /\ viewer.interval # None /\ viewer.interval[1] <= dateNow
  /\ ViewerFree(viewer) # {}
  /\ LET v == [viewer EXCEPT !.interval = Some(dateNow + AUTO_REFRESH_INTERVAL)]
     IN ViewerCommit(IF v.isMounted /\ ~v.isLoading
                     THEN debouncedFetchWalletData(v, dateNow) ELSE v)

\* a retry timer or a reconnection timer fires
ViewerTimer(timer) ==
  /\ timer \in viewer.timers /\ timer.due <= dateNow
  /\ ViewerFree(viewer) # {}
  /\ LET c == CHOOSE x \in ViewerFree(viewer) : TRUE
         v == [viewer EXCEPT !.timers = @ \ {timer}]
     IN ViewerCommit(
          IF ~v.isMounted THEN v
          ELSE IF timer.kind = "retry" THEN fetchWalletData(v, c, timer.retryCount, dateNow)
          ELSE IF timer.seenLoading THEN v
          ELSE [v EXCEPT !.calls[c] = [pc |-> "reconnect", retryCount |-> 0]])

\* the viewer is unmounted: the cleanup of the interval effect
ViewerUnmount ==
  /\ viewer.started /\ viewer.isMounted
  /\ LET v == ClearTimer(ClearTimer(viewer, viewer.retryTimeoutRef), viewer.reconnectTimeoutRef)
     IN ViewerCommit([v EXCEPT !.isMounted = FALSE, !.interval = None])

\* time passes; a timer that is due fires first
ViewerTick ==
  /\ dateNow < MaxViewerNow * ViewerStep
  /\ viewer.interval # None => viewer.interval[1] > dateNow
  /\ \A timer \in viewer.timers : timer.due > dateNow
  /\ viewer' = [viewer EXCEPT !.debounced = FALSE]
  /\ dateNow' = dateNow + ViewerStep
  /\ UNCHANGED <<cachedBalances, cachedAssets, cachedTransactions, localStorage, cacheRead,
                 lastStore, pvars, walletProvider, activity, swap, app, manager>>

NextViewer ==
  \/ ViewerInitialize
  \/ \E c \in ViewerCalls : ViewerConnected(c)
  \/ \E c \in ViewerCalls, msg \in ViewerErrors : ViewerConnectFailed(c, msg)
  \/ \E c \in ViewerCalls, b \in Balances : BalanceResolved(c, b)
  \/ \E c \in ViewerCalls, lines \in LineLists : LinesResolved(c, lines)
  \/ \E c \in ViewerCalls, msg \in ViewerErrors : RequestRejected(c, msg)
  \/ ViewerRefresh
  \/ AutoRefresh
  \/ \E timer \in viewer.timers : ViewerTimer(timer)
  \/ ViewerUnmount
  \/ ViewerTick

\* ------------------------------------------------------ TrustlineManager
\* TrustlineManager of src/src/components/TrustlineManager.tsx and revokeTrustline
\* of src/unnamed/part_006, for a wallet with one trustline. ledger is what
\* account_lines answers: the trustline on the validated ledger, if there is
\* one. The component shows what it last fetched or what it found in the cache.
\* Balances and limits are text, a sequence of digits. The two dialogs cover the
\* page: the list and the refresh button are out of reach while one is open, and
\* the password field while the final warning is.
ManagerWallet == [address |-> "rA", seed |-> "sA"]

\* what the password field can hold: nothing, the seed of the wallet, the seed
\* of another wallet, text that is no seed
Passwords == {"", "sA", "sB", "hunter2"}

\* Wallet.fromSeed(text) returns
IsSeed(text) == text \in {"sA", "sB"}

ManagerErrors == {"Account not found.", "Failed to establish connection"}

SubmitResults == {"tesSUCCESS", "tecPATH_DRY"}

TrustlineOf(balance, limit) ==
  [currency |-> "USD", account |-> "rIssuerA", balance |-> balance, limit |-> limit]

\* response.result.lines of account_lines
LedgerLines(ledger) == IF ledger = None THEN <<>> ELSE <<ledger[1]>>

\* Number(text) > 0
HasTokens(text) == ParseNumber(text) > 0

\* what fetchTrustlines caches for the lines, without the display metadata
AssetsOf(lines) ==
  [k \in DOMAIN lines |-> [currency |-> lines[k].currency, issuer |-> lines[k].account,
                           balance |-> lines[k].balance, limit |-> lines[k].limit]]

\* the cached balance is the text fetchTrustlines stored; toString() returns it
formatAssetsToTrustlines(assets) ==
  [k \in DOMAIN assets |-> [currency |-> assets[k].currency, account |-> assets[k].issuer,
                            balance |-> assets[k].balance,
                            limit |-> IF assets[k].limit = <<>> THEN <<"0">> ELSE assets[k].limit]]

NoManagerCall == [pc |-> "idle", via |-> "none", amount |-> <<>>]

NoStatusCall == [pc |-> "idle", isAccountActivated |-> TRUE]

InitialManager(ledger) ==
  [mounted |-> FALSE, mounts |-> 0, trustlines |-> <<>>, isLoading |-> TRUE,
   isAccountActivated |-> TRUE, error |-> None, success |-> None,
   showRevokeConfirmation |-> FALSE, revokeData |-> None, isRevoking |-> FALSE,
   password |-> "", passwordError |-> None, showFinalWarning |-> FALSE,
   status |-> NoStatusCall, call |-> NoManagerCall, ledger |-> ledger]

MCommit(m) ==
  /\ manager' = m
  /\ UNCHANGED exceptManager

\* checkAccountStatus() of the current render: fetchTrustlines will see this
\* render's isAccountActivated
ManagerCheckStatus(m) ==
  [m EXCEPT !.isLoading = TRUE,
            !.status = [pc |-> "fetching", isAccountActivated |-> m.isAccountActivated]]

\* the component mounts with fresh React state; the effect shows the cached
\* trustlines if getCachedAssets has them and asks the ledger only if not
ManagerMount ==
  /\ ~manager.mounted /\ manager.mounts < MaxMounts
  /\ LET m == [InitialManager(manager.ledger) EXCEPT !.mounted = TRUE,
                                                      !.mounts = manager.mounts + 1]
         cached == GetCached(cachedAssets, ManagerWallet.address, dateNow)
     IN MCommit(IF cached # None
                THEN [m EXCEPT !.trustlines = formatAssetsToTrustlines(cached[1]),
                               !.isLoading = FALSE]
                ELSE ManagerCheckStatus(m))

\* the user leaves the page between two operations
ManagerUnmount ==
  /\ manager.mounted /\ manager.status.pc = "idle" /\ manager.call.pc = "idle"
  /\ ~manager.showRevokeConfirmation /\ ~manager.showFinalWarning
  /\ MCommit([manager EXCEPT !.mounted = FALSE])

\* the refresh button
ManagerRefresh ==
  /\ manager.mounted /\ ~manager.isLoading /\ manager.status.pc = "idle"
  /\ ~manager.showRevokeConfirmation /\ ~manager.showFinalWarning
  /\ MCommit(ManagerCheckStatus(manager))

\* checkAccountStatus runs to its end: ensureConnection, getBalance and
\* fetchTrustlines, which stores the lines of the ledger in the state and in the cache
StatusResolved ==
  /\ manager.status.pc = "fetching"
  /\ LET lines == LedgerLines(manager.ledger)
         m == [manager EXCEPT !.isAccountActivated = TRUE, !.isLoading = FALSE,
                              !.status = NoStatusCall]
     IN IF ~manager.status.isAccountActivated
        THEN MCommit(m)
        ELSE /\ manager' = [m EXCEPT !.trustlines = lines]
             /\ cachedAssets' = PutCached(cachedAssets, ManagerWallet.address, dateNow,
                                          AssetsOf(lines))
             /\ Remember("assets", ManagerWallet.address, AssetsOf(lines))
             /\ UNCHANGED <<cachedBalances, cachedTransactions, localStorage, dateNow,
                            cacheRead, pvars, walletProvider, activity, swap, app, viewer>>

\* ensureConnection or getBalance rejects in checkAccountStatus
StatusRejected(msg) ==
  /\ manager.status.pc = "fetching"
  /\ LET m == [manager EXCEPT !.isLoading = FALSE, !.status = NoStatusCall]
     IN MCommit(IF msg = "Account not found."
                THEN [m EXCEPT !.isAccountActivated = FALSE,
                               !.error = Some("Account needs to be activated with a minimum of 2 XRP")]
                ELSE [m EXCEPT !.error = Some("Failed to check account status")])

\* tokens of the issuer arrive on the trustline
LedgerPayment ==
  /\ manager.ledger # None
  /\ ~HasTokens(manager.ledger[1].balance) /\ HasTokens(manager.ledger[1].limit)
  /\ MCommit([manager EXCEPT !.ledger = Some([manager.ledger[1] EXCEPT !.balance = <<"5">>])])

\* the bin button of line k of the list
handleRevokeTrustline(k) ==
  /\ manager.mounted /\ k \in DOMAIN manager.trustlines
  /\ ~manager.showRevokeConfirmation /\ ~manager.showFinalWarning
  /\ LET line == manager.trustlines[k]
     IN MCommit([manager EXCEPT
          !.revokeData = Some([currency |-> line.currency, issuer |-> line.account,
                               balance |-> line.balance]),
          !.showRevokeConfirmation = TRUE])

\* the password field of the confirmation dialog, shown for a positive balance
setPassword(text) ==
  /\ manager.showRevokeConfirmation /\ ~manager.showFinalWarning /\ ~manager.isRevoking
  /\ manager.revokeData # None /\ HasTokens(manager.revokeData[1].balance)
  /\ manager.password # text
  /\ MCommit([manager EXCEPT !.password = text, !.passwordError = None])

\* Cancel in the confirmation dialog
CancelRevoke ==
  /\ manager.showRevokeConfirmation /\ ~manager.showFinalWarning /\ ~manager.isRevoking
  /\ MCommit([manager EXCEPT !.showRevokeConfirmation = FALSE])

\* Cancel in the final warning
CancelFinalWarning ==
  /\ manager.showFinalWarning /\ ~manager.isRevoking
  /\ MCommit([manager EXCEPT !.showFinalWarning = FALSE])

\* executeTrustlineRemoval up to its first await; via tells which button called it
executeTrustlineRemoval(m, via) ==
  IF m.revokeData = None THEN m
  ELSE [m EXCEPT !.isRevoking = TRUE, !.error = None,
                 !.call = [pc |-> "ensure", via |-> via, amount |-> <<>>]]

\* the button of the confirmation dialog
confirmRevokeTrustline ==
  /\ manager.showRevokeConfirmation /\ ~manager.showFinalWarning /\ ~manager.isRevoking
  /\ manager.revokeData # None
  /\ MCommit(
       IF HasTokens(manager.revokeData[1].balance)
       THEN IF manager.password = ""
            THEN [manager EXCEPT !.passwordError =
                    Some("Please enter your password to confirm token burning")]
            ELSE IF ~IsSeed(manager.password)
            THEN [manager EXCEPT !.passwordError = Some("Invalid password format")]
            ELSE IF manager.password # ManagerWallet.seed
            THEN [manager EXCEPT !.passwordError = Some("Incorrect password")]
            ELSE [manager EXCEPT !.showFinalWarning = TRUE]
       ELSE executeTrustlineRemoval(manager, "confirmation"))

\* the button of the final warning
ConfirmFinalWarning ==
  /\ manager.showFinalWarning /\ manager.revokeData # None /\ ~manager.isRevoking
  /\ MCommit(executeTrustlineRemoval(manager, "finalWarning"))

\* revokeTrustline: ensureConnection resolves
RevokeConnected ==
  /\ manager.call.pc = "ensure"
  /\ MCommit([manager EXCEPT !.call.pc = "lines"])

\* revokeTrustline: getTrustlines answers; a positive balance on the ledger is
\* sent back to the issuer before the TrustSet
RevokeLinesFetched ==
  /\ manager.call.pc = "lines"
  /\ MCommit(IF manager.ledger # None /\ HasTokens(manager.ledger[1].balance)
             THEN [manager EXCEPT !.call.pc = "burn",
                                  !.call.amount = manager.ledger[1].balance]
             ELSE [manager EXCEPT !.call.pc = "trustSet"])

\* the catch block of executeTrustlineRemoval, and its finally
RemovalCaught(m, msg) ==
  [m EXCEPT !.error = Some(msg), !.isRevoking = FALSE, !.call = NoManagerCall]

\* submitAndWait of the payment to the issuer returns
BurnSettled(result) ==
  /\ manager.call.pc = "burn"
  /\ MCommit(IF result = "tesSUCCESS"
             THEN [manager EXCEPT !.call.pc = "trustSet",
                                  !.ledger = IF @ = None THEN @
                                             ELSE Some([@[1] EXCEPT !.balance = <<"0">>])]
             ELSE RemovalCaught(manager, "Failed to burn tokens"))

\* submitAndWait of the TrustSet with limit 0 returns; the ledger deletes a line
\* with no balance and keeps the others with limit 0. revokeTrustline's own look
\* at the lines finds no positive limit; executeTrustlineRemoval goes on to
\* Promise.all
TrustSetSettled(result) ==
  /\ manager.call.pc = "trustSet"
  /\ MCommit(IF result = "tesSUCCESS"
             THEN [manager EXCEPT
                     !.ledger = IF @ = None \/ ~HasTokens(@[1].balance) THEN None
                                ELSE Some([@[1] EXCEPT !.limit = <<"0">>]),
                     !.password = "", !.passwordError = None, !.showFinalWarning = FALSE,
                     !.call.pc = "verify"]
             ELSE RemovalCaught(manager, "Failed to revoke trustline"))

\* getBalance and getTrustlines of Promise.all resolve
RemovalVerified ==
  /\ manager.call.pc = "verify"
  /\ LET newTrustlines == LedgerLines(manager.ledger)
         trustlineStillExists ==
           \E k \in DOMAIN newTrustlines :
             /\ newTrustlines[k].currency = manager.revokeData[1].currency
             /\ newTrustlines[k].account = manager.revokeData[1].issuer
             /\ HasTokens(newTrustlines[k].limit)
         m == IF trustlineStillExists
              THEN [manager EXCEPT !.error =
                      Some("Failed to fully remove trustline. Please try again.")]
              ELSE [manager EXCEPT !.success = Some("removed"),
                                   !.trustlines = newTrustlines]
     IN MCommit([m EXCEPT !.showRevokeConfirmation = FALSE, !.revokeData = None,
                          !.isRevoking = FALSE, !.call = NoManagerCall])

\* one of the awaited requests of the removal rejects
RemovalRejected(msg) ==
  /\ manager.call.pc \in {"ensure", "lines", "burn", "trustSet", "verify"}
  /\ MCommit(RemovalCaught(manager, msg))

NextManager ==
  \/ ManagerMount
  \/ ManagerUnmount
  \/ ManagerRefresh
  \/ StatusResolved
  \/ \E msg \in ManagerErrors : StatusRejected(msg)
  \/ LedgerPayment
  \/ \E k \in 1..1 : handleRevokeTrustline(k)
  \/ \E text \in Passwords : setPassword(text)
  \/ CancelRevoke
  \/ CancelFinalWarning
  \/ confirmRevokeTrustline
  \/ ConfirmFinalWarning
  \/ RevokeConnected
  \/ RevokeLinesFetched
  \/ \E result \in SubmitResults : BurnSettled(result)
  \/ \E result \in SubmitResults : TrustSetSettled(result)
  \/ RemovalVerified
  \/ \E msg \in ManagerErrors : RemovalRejected(msg)

InitComponents ==
  /\ walletProvider = InitialWalletProvider(None)
  /\ activity = InitialActivity
  /\ swap = InitialSwap
  /\ app = InitialApp(None, None)
  /\ viewer = InitialViewer
  /\ manager = InitialManager(Some(TrustlineOf(<<"0">>, <<"9">>)))

\* one caller at a time, two client objects, the clock running
Init ==
  /\ InitProvider /\ InitCaches /\ InitComponents
  /\ budget = [procs |-> {1}, callers |-> Callers, made |-> MaxMade]

\* two callers at once, within one idle window
InitRace ==
  /\ InitProvider /\ InitCaches /\ InitComponents
  /\ budget = [procs |-> Procs, callers |-> Callers, made |-> MaxMade]

\* one call followed through its whole retry loop, within one idle window
InitRetry ==
  /\ InitProvider /\ InitCaches /\ InitComponents
  /\ budget = [procs |-> {1}, callers |-> {1}, made |-> maxAttempts + ExtraMade]

Calling ==
  \/ \E p \in Procs, c \in Callers : EnsureConnection(p, c)
  \/ \E p \in Procs : BackoffWaitOver(p)
  \/ \E c \in Clients : ConnectOpen(c)
  \/ \E c \in Clients, msg \in Errors : ConnectFail(c, msg)
  \/ \E p \in Procs : ConnectionTimeout(p)
  \/ \E p \in Procs : Catch(p)
  \/ \E p \in Procs : SwitchWaitOver(p)
  \/ \E p \in Procs : RetryWaitOver(p)
  \/ \E c \in Clients : RemoteClose(c)
  \/ \E c \in Callers : Disconnect(c)

Next ==
  \/ Calling
  \/ \E k \in TimerKeys : IdleFire(k)
  \/ Tick

Spec == Init /\ [][Next]_vars

SpecRace == InitRace /\ [][Calling]_vars

SpecRetry == InitRetry /\ [][Calling]_vars

SpecCache == Init /\ [][NextCache]_vars

SpecWallet == Init /\ [][NextWallet]_vars

SpecActivity == Init /\ [][NextActivity]_vars

\* every awaited promise of a swap settles and every timer fires
SpecSwap == Init /\ [][NextSwap]_vars /\ WF_vars(SwapProgress)

\* the App component alone; what needs no user eventually happens
SpecApp == Init /\ [][NextApp]_vars /\ WF_vars(AppProgress)

\* one WalletViewer and its clock
SpecViewer == Init /\ [][NextViewer]_vars

\* one TrustlineManager, the ledger and the user
SpecManager == Init /\ [][NextManager]_vars

\* ================================================================ claims

\* sockets with a connection attempt under way
InFlight == {c \in Clients : clients[c].sock = "connecting"}

\* C1: at most one underlying connection attempt of the provider is in flight
\* at any time, whatever ensureConnection and disconnect calls are made.
C1_OneAttemptInFlight == Cardinality(InFlight) <= 1

\* a call has just resolved / rejected
JustResolved(p) == calls[p].pc = "idle" /\ calls[p].result = "ok"
JustRejected(p) == calls[p].pc = "idle" /\ calls[p].result \notin {"none", "ok"}

\* C2: when ensureConnection(client) resolves, the client the caller passed is
\* connected, also after a rotation to another node.
C2_ResolvedClientConnected ==
  \A p \in Procs : JustResolved(p) => clients[calls[p].client].sock = "open"

\* C3: a call in which every attempt fails makes at most 2 x number of nodes
\* attempts, whatever the errors are.
C3_AttemptsBounded == \A p \in Procs : calls[p].made <= 2 * NumNodes

\* C4: a call that fails on every node makes exactly N x 2 attempts and then
\* rejects with 'Failed to connect after maximum attempts'.
C4_ExhaustsThenMaxAttemptsError ==
  \A p \in Procs : JustRejected(p) =>
     calls[p].made = NumNodes * 2 /\ calls[p].result = MaxAttemptsError

CallFor(c) == \E p \in Procs : calls[p].pc # "idle" /\ calls[p].client = c

\* C5: a connected client for which ensureConnection has not been called for a
\* whole idle window has been disconnected by its idle timer.
C5_IdleClientTornDown ==
  \A c \in Callers : (clients[c].sock = "open" /\ ~CallFor(c)) => quiet[c] <= IdleTicks

\* C6: the idle timer of a client never fires earlier than one idle window after
\* the most recent ensureConnection call for that client.
C6_IdleFireAfterFullWindow == fired \in Callers => quiet[fired] >= IdleTicks

\* C7: disconnect(client) is idempotent, and once it has completed with no
\* attempt in flight the client is not connected and none of its timers is pending.
C7_DisconnectIdempotentAndClean ==
  [][\A c \in Callers : Disconnect(c) =>
        /\ cleanup(cleanup(Now, c), c) = cleanup(Now, c)
        /\ clients[c].sock # "connecting" =>
              (clients'[c].sock # "open" /\ \A k \in TimerKeys : k[1] = c => timers'[k] = 0)]_vars

C9_BackoffExponentialBounded ==
  /\ [](\A p \in Procs : calls[p].pc = "backoff" =>
          /\ calls[p].delay = IF RECONNECT_DELAY * 2^(calls[p].attempts - 1) < MAX_BACKOFF_DELAY
                              THEN RECONNECT_DELAY * 2^(calls[p].attempts - 1)
                              ELSE MAX_BACKOFF_DELAY
          /\ calls[p].delay <= 30000)
  /\ [][\A p \in Procs : (calls[p].pc # "idle" /\ calls'[p].pc # "idle") =>
          calls'[p].delay >= calls[p].delay]_vars

\* a call waits the capped delay after having waited a smaller one
C9_Witness ==
  \E p \in Procs : /\ calls[p].pc = "backoff" /\ calls[p].attempts = maxAttempts - 1
                   /\ calls[p].delay = MAX_BACKOFF_DELAY

\* what a read of kind k for address a must return at time now
Expected(k, a, now) ==
  LET last == lastStore[<<k, a>>]
  IN IF last = None THEN None
     ELSE IF k \in {"balance", "assets", "transactions"} /\ now - last[1].at >= CACHE_DURATION
          THEN None
          ELSE Some(last[1].value)

EntryOf(balances, assets, transactions, storage, x) ==
  CASE x[1] = "balance" -> balances[x[2]]
    [] x[1] = "assets" -> assets[x[2]]
    [] x[1] = "transactions" -> transactions[x[2]]
    [] x[1] = "ext_balance" -> storage[BalanceKey(x[2])]
    [] x[1] = "ext_assets" -> storage[AssetsKey(x[2])]

\* every entry but x is the same before and after the step
OthersKept(x) ==
  \A y \in Kinds \X Addresses : y # x =>
     EntryOf(cachedBalances', cachedAssets', cachedTransactions', localStorage', y)
       = EntryOf(cachedBalances, cachedAssets, cachedTransactions, localStorage, y)

\* C11: storing a balance, an asset list or a transaction list for one address
\* leaves the entries of every other address, and the entries of the other kinds
\* for the same address, unchanged (in the provider's maps and in the extension's
\* storage alike).
C11_StoreLeavesOthers ==
  [][\A a \in Addresses :
       /\ (\E b \in Balances : setCachedBalance(a, b)) => OthersKept(<<"balance", a>>)
       /\ (\E x \in AssetLists : updateCachedAssets(a, x)) => OthersKept(<<"assets", a>>)
       /\ (\E x \in TxLists : setCachedTransactions(a, x)) => OthersKept(<<"transactions", a>>)
       /\ (\E b \in Balances : ExtSetCachedBalance(a, b)) => OthersKept(<<"ext_balance", a>>)
       /\ (\E x \in AssetLists : ExtSetCachedAssets(a, x)) => OthersKept(<<"ext_assets", a>>)]_vars

\* a balance has been stored for one address while an older balance of the other
\* address is still cached
C11_Witness ==
  \E a, b \in Addresses :
     /\ a # b
     /\ cachedBalances[a] # None /\ cachedBalances[b] # None
     /\ cachedBalances[a][1].timestamp > cachedBalances[b][1].timestamp
     /\ lastStore[<<"balance", b>>] = Some([at |-> cachedBalances[b][1].timestamp,
                                             value |-> cachedBalances[b][1].data])

\* C12: after disconnectWallet is invoked through the wallet context the wallet
\* is absent from the provider's state and from localStorage, so that a later
\* start-up finds nothing to load.
C12_DisconnectDestroysWallet ==
  [][disconnectWallet => (walletProvider'.wallet = None /\ walletProvider'.item = None)]_vars

\* C17: at most one client created by attemptConnection is connected at any
\* time, also when the connection timeout gave up an attempt whose socket
\* opens later.
C17_SingleConnectedClient ==
  Cardinality({i \in WClients : walletProvider.clients[i].sock = "open"}) <= 1

\* C13: whenever the Activity view holds an error message the message is
\* rendered, and once the retry counter has reached maxRetries the Try Again
\* button is rendered with it.
C13_ErrorsAreShown ==
  activity.error # None =>
     /\ ErrorShown(activity)
     /\ activity.retryCount >= maxRetries => TryAgainShown(activity)

ValidationMessages ==
  {"Please enter a valid amount greater than 0", "Minimum XRP amount is 0.00001",
   "Maximum 6 decimal places allowed for tokens"}

\* C14: when the swap reports a validation error it has submitted no ledger
\* transaction (neither TrustSet nor Payment), issued no request and scheduled
\* no retry.
C14_ValidationBeforeAnyEffect ==
  (swap.error # None /\ swap.error[1] \in ValidationMessages) =>
     /\ swap.call.submitted = {}
     /\ swap.call.requests = 0
     /\ swap.call.waits = <<>>

InSafeRequest == swap.call.pc \in {"srConnect", "srRequest", "srDisconnect", "srBackoff"}

\* C15: safeRequest issues at most 3 requests, each on a connection established
\* for that attempt, waits 4000 ms and then 6000 ms between attempts, leaves at
\* once after a permission-denied error, and always comes to an end.
C15_SafeRequestBoundedRetry ==
  /\ [](swap.call.requests <= 3)
  /\ [](swap.call.pc = "srRequest" => swap.call.fresh /\ swap.connected)
  /\ [](InSafeRequest =>
          /\ swap.call.waits \in {<<>>, <<4000>>, <<4000, 6000>>}
          /\ Len(swap.call.waits) = 3 - swap.call.attempts)
  /\ [][RequestSettled("noPermission") =>
          swap'.call.pc \notin {"srConnect", "srRequest", "srDisconnect", "srBackoff"}]_vars
  /\ (InSafeRequest ~> ~InSafeRequest)

\* the third request is out, after both waits
C15_Witness ==
  /\ swap.call.pc = "srRequest" /\ swap.call.requests = 3
  /\ swap.call.waits = <<4000, 6000>>

\* C16: the exposed isConnecting flag is true exactly while a connection attempt
\* of ensureConnection is in progress; once every call has resolved or rejected
\* it is false.
C16_IsConnectingWhileAttempting ==
  /\ (\A p \in Procs : calls[p].pc = "idle") => ~isConnecting
  /\ (\E p \in Procs : calls[p].pc \notin {"idle", "prewait"}) => isConnecting

\* the provider's state after the step
After == [clients |-> clients', ref |-> connectionRef', timers |-> timers',
          isConnecting |-> isConnecting', currentNode |-> currentNode',
          calls |-> calls', fired |-> NoClient, quiet |-> quiet']

\* C18: when disconnect(client) is called while an ensureConnection attempt for that
\* client is waiting for its socket to open, the completion of that connect does not
\* leave the client connected without an idle-disconnect timer pending for it.
C18_NoStaleSocketAfterDisconnect ==
  [][\A c \in Callers :
       (Disconnect(c) /\ Waiters(Now, c) # {} /\ clients[c].sock = "connecting")
          => LET done == Opened(After, c)
             IN done.clients[c].sock = "open" => TimersFor(done, c) # {}]_vars

\* C19: while App's connection attempts keep failing with 'IP limit reached', App
\* starts at most MAX_RETRY_ATTEMPTS retries, and the timer of the (n+1)-th retry
\* waits min(INITIAL_RETRY_DELAY * 2^n, MAX_RETRY_DELAY).
C19_BoundedBackoffRetries ==
  /\ app.retries <= MAX_RETRY_ATTEMPTS
  /\ app.retryTimeout # None =>
       app.retryTimeout[1].delay =
         Min(INITIAL_RETRY_DELAY * Pow2(app.retryTimeout[1].nth), MAX_RETRY_DELAY)

\* C20: after a client App listens to has emitted 'disconnected', App eventually
\* creates a later client for the current network and calls connect on it.
C20_ReconnectsAfterDisconnect ==
  \A i \in AppClients :
    app.clients[i].dropped ~>
      (\E j \in AppClients : /\ j > i
                             /\ app.clients[j].sock # "none"
                             /\ app.clients[j].networkType = app.network)

\* C21: every handleNetworkChange(n) stores n as the selected network and starts
\* a connection attempt to the node URL of n, whatever happened before.
C21_NetworkChangeConnects ==
  [][\A n \in Networks :
       handleNetworkChange(n) =>
         /\ app'.network = n
         /\ app'.storedNetwork = Some(n)
         /\ \E i \in AppClients : /\ app.clients[i].sock = "none"
                                  /\ app'.clients[i].sock = "connecting"
                                  /\ app'.clients[i].url = UrlOf(n)]_vars

\* C22: the wallet provider counts retries per node: retryCount stays below
\* MAX_RETRIES, because the third consecutive failure moves currentNode to the next
\* entry of MAINNET_NODES and resets the count, and every connection attempt that
\* starts targets the current node.
C22_RetriesPerNode ==
  [][/\ walletProvider'.connectionState.retryCount < MAX_RETRIES
     /\ \A i \in WClients :
          (walletProvider.attempts[i] # "racing" /\ walletProvider'.attempts[i] = "racing")
            => walletProvider'.clients[i].node = walletProvider.connectionState.currentNode]_vars

\* C23: once the user has disconnected the wallet through the context, the wallet
\* provider starts no connection attempt.
C23_NoAttemptAfterDisconnect ==
  [][walletProvider.disconnected =>
       \A i \in WClients :
         ~(walletProvider.attempts[i] # "racing" /\ walletProvider'.attempts[i] = "racing")]_vars

\* the provider with its counter of attempts at the cap
AtCap == [walletProvider EXCEPT !.activeConnections = MAX_CONCURRENT_CONNECTIONS]

Racing(w) == {i \in WClients : w.attempts[i] = "racing"}

\* C24: the wallet provider's counter of attempts in flight stays within
\* 0..MAX_CONCURRENT_CONNECTIONS and equals the number of attempts that have started
\* and not finished: a start adds one, a finish (success, failure or timeout) takes
\* one away, and attemptConnection at the cap changes nothing.
C24_ActiveConnectionsCounted ==
  /\ [](/\ walletProvider.activeConnections \in 0..MAX_CONCURRENT_CONNECTIONS
        /\ walletProvider.activeConnections = Cardinality(Racing(walletProvider))
        /\ \A n \in 1..Len(W_MAINNET_NODES) : attemptConnection(AtCap, W_MAINNET_NODES[n]) = AtCap)
  /\ [][walletProvider'.activeConnections - walletProvider.activeConnections =
          Cardinality(Racing(walletProvider') \ Racing(walletProvider))
            - Cardinality(Racing(walletProvider) \ Racing(walletProvider'))]_vars

\* an attempt that timed out has finished, its socket still connecting, and the
\* counter is back at 0
C24_Witness ==
  /\ walletProvider.activeConnections = 0
  /\ \E i \in WClients : /\ walletProvider.attempts[i] = "done"
                         /\ walletProvider.clients[i].sock = "connecting"

\* a fetchWalletData invocation of the mounted viewer fails in this step
FetchFails(c) ==
  /\ viewer.isMounted
  /\ \E msg \in ViewerErrors :
       \/ RequestRejected(c, msg)
       \/ viewer.calls[c].pc = "ensure" /\ ViewerConnectFailed(c, msg)

\* C25: a fetchWalletData that fails with retryCount below MAX_RETRIES leaves a retry
\* timer pending that waits min(INITIAL_RETRY_DELAY * 2^retryCount, MAX_RETRY_DELAY)
\* and carries retryCount + 1, and leaves a reconnection timer pending otherwise;
\* a retry timer that fires issues the requests again.
C25_FetchRetriedWithBackoff ==
  [][/\ \A c \in ViewerCalls :
          FetchFails(c) =>
            IF viewer.calls[c].retryCount < V_MAX_RETRIES
            THEN \E timer \in viewer'.timers :
                   /\ timer.kind = "retry"
                   /\ timer.retryCount = viewer.calls[c].retryCount + 1
                   /\ timer.due = dateNow + Min(V_INITIAL_RETRY_DELAY * Pow2(viewer.calls[c].retryCount),
                                                V_MAX_RETRY_DELAY)
            ELSE \E timer \in viewer'.timers : timer.kind = "reconnect"
     /\ \A timer \in viewer.timers :
          (ViewerTimer(timer) /\ timer.kind = "retry" /\ viewer.isMounted)
            => \E c \in ViewerCalls : /\ viewer.calls[c].pc = "idle"
                                      /\ viewer'.calls[c].pc = "ensure"]_vars

C27_SwapTokensDefinedAndDistinct ==
  /\ swap.fromToken # None
  /\ swap.toToken # None =>
       \/ swap.toToken[1].currency # swap.fromToken[1].currency
       \/ swap.toToken[1].issuer # swap.fromToken[1].issuer

\* C28: revokeTrustline sends tokens back to the issuer only in a removal that
\* the button of the final warning started, for a trustline the dialog showed
\* with a positive balance and after the password matched the seed of the wallet.
C28_BurnOnlyAfterPasswordAndWarning ==
  [][(manager.call.pc = "lines" /\ manager'.call.pc = "burn")
       => /\ manager.call.via = "finalWarning"
          /\ HasTokens(manager.revokeData[1].balance)]_vars

====
